---- MODULE Spec2Model ----
(***************************************************************************)
(* The GitHub API access layer of ghd (src/scraper/github.py): a pool of   *)
(* credentials (GitHubAPIToken) with per-class quota state, and the        *)
(* scheduler GitHubAPI.request that rotates over the pool, classifies the  *)
(* responses, sleeps and paginates.  The server and the network are the    *)
(* environment: every outcome of an HTTP call is drawn from Outcomes.      *)
(***************************************************************************)
EXTENDS Integers, Sequences, FiniteSets, TLC

(* ------------------------------ bounds -------------------------------- *)
\* number of credentials in the pool (len(self.tokens))
NTokens == 2
\* X-RateLimit-Reset instants the server reports are 1..MaxReset; the clock starts
\* at 1 and saturates one second after MaxReset, where every comparison with a
\* reset time is decided
MaxReset == 3
\* the server holds at most this many pages for a paginated resource
MaxPages == 2
\* at most this many items on one page
MaxItems == 1
\* connection errors the network produces in a row before it answers again
MaxConnErr == 3
\* operations run on the credentials directly, outside the scheduler
MaxOps == 2
\* GitHubAPI() constructions in one process
MaxConstructs == 2
\* items (files, issues, commits, events) in one answer handed to an endpoint method
MaxRecs == 2
\* concurrent callers of GitHubAPI.request
NCallers == 2

(* ------------------------- program constants -------------------------- *)
\* GitHubAPI.__init__(tokens, timeout=30)
timeout == 30
\* params['per_page'] = 100
per_page == 100
\* time.sleep(randint(1, 29))
JitterLo == 1
JitterHi == 29
\* legit(): self.limit['core']['limit'] < 100
LegitLimit == 100

\* Python's None, for the integer-valued fields that may hold it
None == -1

Tokens == 1..NTokens
Classes == {"core", "search"}
MaxTime == MaxReset + 1

Min2(a, b) == IF a <= b THEN a ELSE b

(* ------------------------------- urls --------------------------------- *)
\* urls are character sequences, so that startswith is computed
UrlRepos == <<"r", "e", "p", "o", "s", "/", "x">>
UrlSearch == <<"s", "e", "a", "r", "c", "h", "/", "x">>
UrlRateLimit == <<"r", "a", "t", "e", "_", "l", "i", "m", "i", "t">>
UrlUser == <<"u", "s", "e", "r">>
SearchPrefix == <<"s", "e", "a", "r", "c", "h">>
\* the urls the endpoint methods hand to GitHubAPI.request: none starts with search
CallUrls == {UrlRepos}

startswith(s, p) ==
    /\ Len(s) >= Len(p)
    /\ \A i \in 1..Len(p) : s[i] = p[i]

\* GitHubAPIToken.api_class
api_classCore(u) == "core"
api_class(u) == IF startswith(u, SearchPrefix) THEN "search" ELSE "core"

(* ---------------------- header values and int() ----------------------- *)
\* header values are digit strings; int() parses them
RECURSIVE int(_)
int(s) == IF Len(s) = 0 THEN 0 ELSE 10 * int(SubSeq(s, 1, Len(s) - 1)) + s[Len(s)]

\* the digit string of a one-digit number
Str(n) == <<n>>
Absent == <<>>
\* the X-RateLimit-Limit value the server sends for a class
LimitHeader(c) == IF c = "search" THEN <<3, 0>> ELSE <<5, 0, 0, 0>>

NoHeaders == [Remaining |-> Absent, Reset |-> Absent, Limit |-> Absent]
\* the rate-limit headers of a response: with nothing remaining, any reset time;
\* with quota remaining, the end of the window, which no code reads then
RateHeaders(c) ==
    {[Remaining |-> Str(0), Reset |-> Str(rst), Limit |-> LimitHeader(c)] : rst \in 1..MaxReset}
    \cup
    {[Remaining |-> Str(1), Reset |-> Str(MaxReset), Limit |-> LimitHeader(c)]}
HeaderChoices(c) == {NoHeaders} \cup RateHeaders(c)

(* ------------------------------ quota --------------------------------- *)
\* GitHubAPIToken.__init__: every field None
UnknownLimit == [limit |-> None, remaining |-> None, reset_time |-> None]

\* **params without page and per_page
NoParams == [page |-> None, per_page |-> None]

VARIABLES
    limit,            \* limit[t][c]: GitHubAPIToken.limit of credential t, class c
    now,              \* time.time(), whole seconds, saturating at MaxTime
    pc,               \* position of the single thread of control
    caller,           \* who runs the credential-level request: api, direct, legit
    url,              \* request: url
    paginate,         \* request: paginate
    params,           \* params: page and per_page (None when the call does not set them)
    paginated_res,    \* paginated_res
    timeout_counter,  \* timeout_counter
    idx,              \* the credential the for loop is at (NTokens + 1: loop over)
    sleep,            \* sleep, as computed at the end of the last pass
    result,           \* the value the call returned
    exc,              \* the exception the call raised
    srv,              \* server: the pages it has served for the paginated resource
    lastHdr,          \* history: rate-limit headers last received per credential, class
    lastCheck,        \* history: what the last _check_limits of a credential stored
    connRun,          \* history: connection errors in a row within the call
    nTimeouts,        \* history: request timeouts within the call (counted up to NTokens + 1)
    lastKind,         \* history: how the scheduler took the last outcome, until the next request
    lastStatus,       \* history: HTTP status of the last outcome (0: none), until the next request
    lastReq,          \* history: the scheduler's last request: credential, page asked for,
                      \*   the credential that answered the page before it (0: none), and
                      \*   the X-RateLimit-Remaining of its response (None: no such header)
    ops,              \* history: credential-level operations run outside the scheduler
    client,           \* the singleton: none (never constructed), ready, failed (__init__ raised)
    configured,       \* len(_tokens): the credentials settings.py configures
    created,          \* history: how many times __init__ built the list of credentials
    learned,          \* history: pool positions for which core quota headers were received
    method,           \* the endpoint method that was called
    mpc,              \* its position: none, created (generator not started), fetch, body, done, raised
    phase,            \* which of its requests the method is at
    data,             \* what self.request(...) returned to it
    cur,              \* position of its for loop in the sequence it iterates
    yielded,          \* the records it has yielded
    ret,              \* the value it returned
    mexc,             \* the exception it raised
    author,           \* issue_pr_timeline: the local author
    empties,          \* history: how many of the method's requests were answered {}
    cursor,           \* GitHubAPIv4: the local cursor
    arg,              \* GitHubAPIv4: the cursor the caller passed
    sent,             \* history: the cursors of the GraphQL requests made
    served,           \* history: the repository objects of the GraphQL answers
    project_url,      \* canonical_url: its argument, a sequence of characters
    canon,            \* canonical_url: what it returned (<<>>: not called yet)
    canon2,           \* canonical_url: what it returned for canon (<<>>: not called yet)
    thr,              \* concurrent callers of GitHubAPI.request: each one's position and locals
    received          \* history: the quota triples of the responses received per credential

vars == <<limit, now, pc, caller, url, paginate, params, paginated_res,
          timeout_counter, idx, sleep, result, exc, srv, lastHdr, lastCheck,
          connRun, nTimeouts, lastKind, lastStatus, lastReq, ops,
          client, configured, created, learned,
          method, mpc, phase, data, cur, yielded, ret, mexc, author, empties,
          cursor, arg, sent, served, project_url, canon, canon2, thr, received>>

callVars == <<url, paginate, params, paginated_res, timeout_counter, sleep, result, exc>>
histVars == <<lastHdr, lastCheck, connRun, nTimeouts, lastKind, lastStatus, lastReq, ops>>
clientVars == <<client, configured, created>>
v4Vars == <<cursor, arg, sent, served>>
urlVars == <<project_url, canon, canon2>>
concVars == <<thr, received>>
methodVars == <<method, mpc, phase, data, cur, yielded, ret, mexc, author, empties, v4Vars>>
schedVars == <<limit, now, pc, caller, callVars, idx, srv, histVars, clientVars, learned>>

(* ----------------------------- credential ------------------------------ *)
\* GitHubAPIToken.when
whenResetOnly(t, u) == limit[t][api_class(u)].reset_time
when(t, u) ==
    IF limit[t][api_class(u)].remaining # 0
    THEN 0
    ELSE limit[t][api_class(u)].reset_time

\* GitHubAPIToken.ready: not t or t <= time.time()
readyAlways(t, u) == TRUE
readyAtResetOnly(t, u) == (when(t, u) = 0 \/ when(t, u) = None) \/ when(t, u) = now
readyStrictlyAfter(t, u) == (when(t, u) = 0 \/ when(t, u) = None) \/ when(t, u) < now
readyNoClock(t, u) == when(t, u) = 0 \/ when(t, u) = None
ready(t, u) == (when(t, u) = 0 \/ when(t, u) = None) \/ when(t, u) <= now

(* ------------------------------ responses ------------------------------ *)
Statuses == {200, 301, 401, 403, 404, 409, 410, 443, 451, 500, 502}

NoJson == [ok |-> FALSE, items |-> <<>>]
Json(items) == [ok |-> TRUE, items |-> items]

\* the k-th item of page p
Items(p, n) == [k \in 1..n |-> <<p, k>>]

\* Link header, as the set of its rel values
LinkNext == {"next", "last"}
LinkPrev == {"prev", "first"}
NoLink == {}

\* resources.search of a rate_limit body; NoSearch: the body has no such key
NoSearch == [remaining |-> None, reset |-> None, limit |-> None]
SearchBodies ==
    {[remaining |-> 0, reset |-> rst, limit |-> int(LimitHeader("search"))] : rst \in 1..MaxReset}
    \cup
    {[remaining |-> 1, reset |-> MaxReset, limit |-> int(LimitHeader("search"))]}
NoCheck == [kind |-> "none", search |-> NoSearch]

\* the pages the server may answer a successful request with: a paginated resource
\* answers page p the same way every time, and has at most MaxPages pages
PageChoices ==
    IF caller = "api" /\ paginate
    THEN IF params.page <= Len(srv)
         THEN {srv[params.page]}
         ELSE {[n |-> n, next |-> nx] : n \in 0..MaxItems,
                                       nx \in IF params.page < MaxPages THEN BOOLEAN ELSE {FALSE}}
    ELSE {[n |-> n, next |-> FALSE] : n \in 0..1}

NoPage == [n |-> 0, next |-> FALSE]

\* Link: rel="next" exactly when the server has a further page
Links(pg) ==
    IF pg.next THEN {LinkNext}
    ELSE IF caller = "api" /\ paginate THEN {LinkPrev, NoLink}
    ELSE {NoLink}

Bodies(st) ==
    IF st = 200
    THEN UNION {{[json |-> Json(Items(IF params.page = None THEN 0 ELSE params.page, pg.n)),
                  link |-> lk, pg |-> pg] : lk \in Links(pg)} : pg \in PageChoices}
    ELSE IF st = 301
         THEN {[json |-> j, link |-> NoLink, pg |-> NoPage] : j \in {NoJson, Json(<<>>)}}
         ELSE {[json |-> NoJson, link |-> NoLink, pg |-> NoPage]}

\* requests.request raising: ConnectionError, ReadTimeout (timeout), or
\* ConnectTimeout (conntimeout), which is both a ConnectionError and a Timeout
NetOutcomes ==
    {[kind |-> k, status |-> 0, headers |-> NoHeaders, json |-> NoJson, link |-> NoLink,
      pg |-> NoPage, search |-> NoSearch] : k \in {"conn", "timeout", "conntimeout"}}

\* every outcome of requests.request(...) for the scheduler's request in flight
Outcomes ==
    NetOutcomes
    \cup
    UNION {{[kind |-> "http", status |-> st, headers |-> h, json |-> b.json,
             link |-> b.link, pg |-> b.pg, search |-> NoSearch] :
                h \in HeaderChoices(api_class(url)), b \in Bodies(st)} : st \in Statuses}

\* every outcome of a request a credential is asked for directly
TokenOutcomes ==
    NetOutcomes
    \cup
    {[kind |-> "http", status |-> st, headers |-> h, json |-> NoJson, link |-> NoLink,
      pg |-> NoPage, search |-> sb] :
        st \in {200, 403, 443, 500}, h \in HeaderChoices(api_class(url)),
        sb \in IF caller = "legit" THEN {NoSearch} \cup SearchBodies ELSE {NoSearch}}


NoResult == [kind |-> "none", items |-> <<>>]
\* return {}
EmptyDict == [kind |-> "dict", items |-> <<>>]
List(items) == [kind |-> "list", items |-> items]

\* a response body that is a JSON object: its keys, in order, with their values
Dict(pairs) == [kind |-> "dict", items |-> pairs]
\* k in d
haskey(d, k) == \E i \in 1..Len(d.items) : d.items[i][1] = k
\* d[k], for a key that is there
getitem(d, k) == d.items[CHOOSE i \in 1..Len(d.items) : d.items[i][1] = k][2]
\* what a for loop over the value runs through: a list's items, a dict's keys
iter(d) == IF d.kind = "dict" THEN [i \in 1..Len(d.items) |-> d.items[i][1]] ELSE d.items
\* Python's None where a string is expected, and a key that the object lacks
NoneS == "<None>"
Missing == "<missing>"
\* the method has returned nothing (yet)
NoReturn == "<no return>"
\* a nullable user object of an event (actor, user): null, or login and type;
\* the local author of issue_pr_timeline starts without a value
NullActor == [null |-> TRUE, login |-> Missing, type |-> Missing]
Actor(l, ty) == [null |-> FALSE, login |-> l, type |-> ty]
\* the sequences over S of at most n elements
SeqsUpTo(S, n) == UNION {[1..k -> S] : k \in 0..n}

(* --------------------- GitHubAPIToken.request, after the call ---------- *)
\* 'X-RateLimit-Remaining' in r.headers
HasRate(o) == o.headers.Remaining # Absent

\* the dict built from the three headers
HeaderLimit(o) ==
    [remaining |-> int(o.headers.Remaining),
     reset_time |-> int(o.headers.Reset),
     limit |-> int(o.headers.Limit)]

\* self.limit after the outcome o of a request of credential t for url u
limitAfterOkOnly(o, t, u) ==
    IF o.kind = "http" /\ HasRate(o) /\ o.status = 200
    THEN [limit EXCEPT ![t][api_class(u)] = HeaderLimit(o)]
    ELSE limit
limitAfterShared(o, t, u) ==
    IF o.kind = "http" /\ HasRate(o)
    THEN [x \in Tokens |-> [limit[x] EXCEPT ![api_class(u)] = HeaderLimit(o)]]
    ELSE limit
limitAfter(o, t, u) ==
    IF o.kind = "http" /\ HasRate(o)
    THEN [limit EXCEPT ![t][api_class(u)] = HeaderLimit(o)]
    ELSE limit

\* the pool positions whose core quota is known from headers, after outcome o
learnedAfter(o, t, u) ==
    IF o.kind = "http" /\ HasRate(o) /\ api_class(u) = "core"
    THEN learned \cup {t}
    ELSE learned

\* what token.request raises: the network's exception, or TokenNotReady
excAfterQuotaUnread(o) ==
    IF o.kind = "conn" THEN "ConnectionError"
    ELSE IF o.kind = "timeout" THEN "ReadTimeout"
    ELSE IF o.kind = "conntimeout" THEN "ConnectTimeout"
    ELSE IF HasRate(o) /\ o.status = 443 THEN "TokenNotReady"
    ELSE "none"
excAfter(o) ==
    IF o.kind = "conn" THEN "ConnectionError"
    ELSE IF o.kind = "timeout" THEN "ReadTimeout"
    ELSE IF o.kind = "conntimeout" THEN "ConnectTimeout"
    ELSE IF HasRate(o) /\ o.status = 403 /\ int(o.headers.Remaining) = 0 THEN "TokenNotReady"
    ELSE IF HasRate(o) /\ o.status = 443 THEN "TokenNotReady"
    ELSE "none"

respAfter(o) ==
    [exc |-> excAfter(o), status |-> o.status, json |-> o.json, link |-> o.link,
     search |-> o.search]

\* the classes of requests.exceptions an exception is an instance of
ExcClasses(e) ==
    IF e = "ConnectTimeout" THEN {"ConnectTimeout", "ConnectionError", "Timeout"}
    ELSE IF e = "ReadTimeout" THEN {"ReadTimeout", "Timeout"}
    ELSE IF e = "TokenNotReady" THEN {"TokenNotReady", "HTTPError"}
    ELSE {e}

\* except cls: matches e
caughtButQuota(e, cls) == cls # "TokenNotReady" /\ cls \in ExcClasses(e)
caught(e, cls) == cls \in ExcClasses(e)

\* the request ran into its timeout
timedOut(o) == o.kind \in {"timeout", "conntimeout"}

\* no request made yet
NoReq == [tok |-> 0, page |-> None, remaining |-> None, prev |-> 0]

\* the threads that call GitHubAPI.request on the one client
Callers == 1..NCallers
\* a caller that has not called yet: where it is, the credential its for loop
\* is at, whether the scheduler (1) or token.request (2) is asking ready(), and
\* the response r it holds
NoOutcome == [kind |-> "none", status |-> 0, headers |-> NoHeaders, json |-> NoJson,
              link |-> NoLink, pg |-> NoPage, search |-> NoSearch]
IdleCaller == [pc |-> "idle", idx |-> 1, stage |-> 1, k |-> 1, wake |-> 0, r |-> NoOutcome]

(* ------------------------------- Init ---------------------------------- *)
InitCall ==
    /\ limit = [t \in Tokens |-> [c \in Classes |-> UnknownLimit]]
    /\ now = 1
    /\ pc = "idle"
    /\ caller = "none"
    /\ url = UrlRepos
    /\ paginate = FALSE
    /\ params = NoParams
    /\ paginated_res = <<>>
    /\ timeout_counter = 0
    /\ idx = 1
    /\ sleep = 0
    /\ result = NoResult
    /\ exc = "none"
    /\ srv = <<>>
    /\ lastHdr = [t \in Tokens |-> [c \in Classes |-> NoHeaders]]
    /\ lastCheck = [t \in Tokens |-> NoCheck]
    /\ connRun = 0
    /\ nTimeouts = 0
    /\ lastKind = "none"
    /\ lastStatus = 0
    /\ lastReq = NoReq
    /\ ops = 0
    /\ learned = {}
    /\ method = "none"
    /\ mpc = "none"
    /\ phase = 1
    /\ data = NoResult
    /\ cur = 1
    /\ yielded = <<>>
    /\ ret = NoReturn
    /\ mexc = "none"
    /\ author = NullActor
    /\ empties = 0
    /\ cursor = NoneS
    /\ arg = NoneS
    /\ sent = <<>>
    /\ served = <<>>
    /\ canon = <<>>
    /\ canon2 = <<>>
    /\ thr = [w \in Callers |-> IdleCaller]
    /\ received = [t \in Tokens |-> {}]

\* the state after api = GitHubAPI() with NTokens credentials configured
Init ==
    /\ InitCall
    /\ project_url = <<>>
    /\ client = "ready"
    /\ configured = NTokens
    /\ created = 1

(* ----------------------- GitHubAPI.request ------------------------------ *)
\* entry: timeout_counter = 0; if paginate: paginated_res = [], page = 1, per_page = 100
StartCall(u, pg) ==
    /\ pc = "idle"
    /\ pc' = "scan"
    /\ caller' = "api"
    /\ url' = u
    /\ paginate' = pg
    /\ params' = IF pg THEN [page |-> 1, per_page |-> per_page] ELSE NoParams
    /\ paginated_res' = <<>>
    /\ timeout_counter' = 0
    /\ idx' = 1
    /\ UNCHANGED <<limit, now, sleep, result, exc, srv, histVars>>
    /\ UNCHANGED <<clientVars, learned, methodVars, urlVars, concVars>>

\* for token in self.tokens: if not token.ready(url): continue
Skip ==
    /\ pc = "scan"
    /\ idx <= NTokens
    /\ ~ready(idx, url)
    /\ idx' = idx + 1
    /\ UNCHANGED <<limit, now, pc, caller, callVars, srv, histVars>>
    /\ UNCHANGED <<clientVars, learned, methodVars, urlVars, concVars>>

\* the credential is ready: token.request checks ready again and sends the request
Attempt ==
    /\ pc = "scan"
    /\ idx <= NTokens
    /\ ready(idx, url)
    /\ IF ready(idx, url)
       THEN pc' = "wait" /\ idx' = idx /\ lastKind' = "none"
       ELSE pc' = "scan" /\ idx' = idx + 1 /\ lastKind' = "notready"
    /\ lastStatus' = 0
    /\ lastReq' = [tok |-> idx, page |-> params.page, remaining |-> None,
                   prev |-> IF lastKind = "page" THEN lastReq.tok ELSE lastReq.prev]
    /\ UNCHANGED <<limit, now, caller, callVars, srv,
                   lastHdr, lastCheck, connRun, nTimeouts, ops>>
    /\ UNCHANGED <<clientVars, learned, methodVars, urlVars, concVars>>

\* the branch GitHubAPI.request takes on a response's status (lines 192-221);
\* r.raise_for_status() raises for 400 <= status < 600
statusBranchGoneRetried(st) ==
    IF st \in {404, 451} THEN "empty"
    ELSE IF st = 409 THEN "empty"
    ELSE IF st = 410 THEN "jitter"
    ELSE IF st = 403 THEN "jitter"
    ELSE IF st = 443 THEN "jitter"
    ELSE IF st = 502 THEN "jitter"
    ELSE IF 400 <= st /\ st < 600 THEN "raise"
    ELSE "json"
statusBranchBadGatewayRaises(st) ==
    IF st \in {404, 451} THEN "empty"
    ELSE IF st = 409 THEN "empty"
    ELSE IF st = 410 THEN "empty"
    ELSE IF st = 403 THEN "jitter"
    ELSE IF st = 443 THEN "jitter"
    ELSE IF 400 <= st /\ st < 600 THEN "raise"
    ELSE "json"
statusBranch(st) ==
    IF st \in {404, 451} THEN "empty"
    ELSE IF st = 409 THEN "empty"
    ELSE IF st = 410 THEN "empty"
    ELSE IF st = 403 THEN "jitter"
    ELSE IF st = 443 THEN "jitter"
    ELSE IF st = 502 THEN "jitter"
    ELSE IF 400 <= st /\ st < 600 THEN "raise"
    ELSE "json"

\* timeout_counter > len(self.tokens)
timeoutRaises(tc) == tc > NTokens

\* params["page"] += 1
nextPage(ps) == [ps EXCEPT !.page = ps.page + 1]

\* paginated_res.extend(res)
extendFront(acc, res) == res \o acc
extend(acc, res) == acc \o res

\* has_next = 'rel="next"' in r.headers.get("Link", "")
has_next(link) == "next" \in link

\* not res or not has_next
lastPageByLink(res, link) == ~has_next(link)
lastPageFirst(res, link) == TRUE
lastPage(res, link) == Len(res) = 0 \/ ~has_next(link)

\* what the scheduler does with what token.request gave: the next position and
\* the new values of its locals
step(kind) ==
    [pc |-> kind, idx |-> idx, params |-> params, paginated_res |-> paginated_res,
     timeout_counter |-> timeout_counter, result |-> result, exc |-> exc,
     lastKind |-> lastKind]

\* continue: the next credential of the for loop
continueFromFirstPage(why) ==
    [step("scan") EXCEPT !.idx = idx + 1, !.lastKind = why,
                         !.params = IF paginate THEN [params EXCEPT !.page = 1] ELSE params]
continueSameCredential(why) == [step("scan") EXCEPT !.lastKind = why]
continue(why) == [step("scan") EXCEPT !.idx = idx + 1, !.lastKind = why]

\* return {}: whatever pages were accumulated
absentKeepsPages(acc) == IF Len(acc) > 0 THEN List(acc) ELSE EmptyDict
absent(acc) == EmptyDict

handled(r) ==
    IF caught(r.exc, "ConnectionError") THEN continue("conn")
    ELSE IF caught(r.exc, "TokenNotReady") THEN continue("exhausted")
    ELSE IF caught(r.exc, "Timeout")
    THEN IF timeoutRaises(timeout_counter + 1)
         THEN [step("raised") EXCEPT !.timeout_counter = timeout_counter + 1,
                                     !.exc = r.exc]
         ELSE [continue("timeout") EXCEPT !.timeout_counter = timeout_counter + 1]
    ELSE IF r.exc # "none"
    THEN [step("raised") EXCEPT !.exc = r.exc]
    ELSE IF statusBranch(r.status) = "empty"
    THEN [step("returned") EXCEPT !.result = absent(paginated_res)]
    ELSE IF statusBranch(r.status) = "jitter"
    THEN [step("jitter") EXCEPT !.lastKind = "transient"]
    ELSE IF statusBranch(r.status) = "raise"
    THEN [step("raised") EXCEPT !.exc = "HTTPError"]
    ELSE IF ~r.json.ok
    THEN [step("raised") EXCEPT !.exc = "ValueError"]
    ELSE IF paginate
    THEN IF lastPage(r.json.items, r.link)
         THEN [step("returned") EXCEPT
                  !.paginated_res = extend(paginated_res, r.json.items),
                  !.result = List(extend(paginated_res, r.json.items))]
         ELSE [continue("page") EXCEPT
                  !.paginated_res = extend(paginated_res, r.json.items),
                  !.params = nextPage(params)]
    ELSE [step("returned") EXCEPT !.result = List(r.json.items)]

\* requests.request returns or raises with outcome o; token.request stores the
\* headers and returns r or raises; the scheduler handles what it gave
Receive(o) ==
    /\ pc = "wait"
    /\ caller = "api"
    /\ caught(excAfter(o), "ConnectionError") => connRun < MaxConnErr
    /\ limit' = limitAfter(o, idx, url)
    /\ now' = IF timedOut(o) THEN Min2(now + timeout, MaxTime) ELSE now
    /\ srv' = IF paginate /\ o.status = 200 /\ params.page = Len(srv) + 1
              THEN Append(srv, o.pg)
              ELSE srv
    /\ lastHdr' = IF o.kind = "http" /\ HasRate(o)
                  THEN [lastHdr EXCEPT ![idx][api_class(url)] = o.headers]
                  ELSE lastHdr
    /\ connRun' = IF caught(excAfter(o), "ConnectionError") THEN connRun + 1 ELSE 0
    /\ nTimeouts' = IF timedOut(o) THEN Min2(nTimeouts + 1, NTokens + 1) ELSE nTimeouts
    /\ \E h \in {handled(respAfter(o))} :
           /\ pc' = h.pc
           /\ idx' = h.idx
           /\ params' = h.params
           /\ paginated_res' = h.paginated_res
           /\ timeout_counter' = h.timeout_counter
           /\ result' = h.result
           /\ exc' = h.exc
           /\ lastKind' = h.lastKind
    /\ lastStatus' = o.status
    /\ lastReq' = [lastReq EXCEPT !.remaining = IF o.kind = "http" /\ HasRate(o)
                                                THEN int(o.headers.Remaining) ELSE None]
    /\ learned' = learnedAfter(o, idx, url)
    /\ UNCHANGED <<caller, url, paginate, sleep, lastCheck, ops>>
    /\ UNCHANGED <<clientVars, methodVars, urlVars, concVars>>

\* time.sleep(randint(1, 29)); continue
JitterWake(j) ==
    /\ pc = "jitter"
    /\ now' = Min2(now + j, MaxTime)
    /\ pc' = "scan"
    /\ idx' = idx + 1
    /\ UNCHANGED <<limit, caller, callVars, srv, histVars>>
    /\ UNCHANGED <<clientVars, learned, methodVars, urlVars, concVars>>

\* min(token.when(url) for token in self.tokens)
next_resByReset == CHOOSE m \in {limit[t][api_class(url)].reset_time : t \in Tokens} :
                       \A t \in Tokens : m <= limit[t][api_class(url)].reset_time
next_res == CHOOSE m \in {when(t, url) : t \in Tokens} :
                \A t \in Tokens : m <= when(t, url)

\* sleep = int(next_res - time.time()) + 1; the clock counts whole seconds
sleepForShort == (next_res - now) - 1
sleepForExact == next_res - now
sleepFor == (next_res - now) + 1

\* the for loop is over: compute sleep; if sleep > 0 go to sleep, else next pass
PassEnd ==
    /\ pc = "scan"
    /\ idx = NTokens + 1
    /\ sleep' = sleepFor
    /\ IF sleepFor > 0
       THEN pc' = "sleeping" /\ idx' = idx
       ELSE pc' = "scan" /\ idx' = 1
    /\ UNCHANGED <<limit, now, caller, url, paginate, params, paginated_res,
                   timeout_counter, result, exc, srv, histVars>>
    /\ UNCHANGED <<clientVars, learned, methodVars, urlVars, concVars>>

\* time.sleep(sleep) is over: the next pass of while True
Wake ==
    /\ pc = "sleeping"
    /\ now' = Min2(now + sleep, MaxTime)
    /\ pc' = "scan"
    /\ idx' = 1
    /\ UNCHANGED <<limit, caller, callVars, srv, histVars>>
    /\ UNCHANGED <<clientVars, learned, methodVars, urlVars, concVars>>

\* a second passes
Tick ==
    /\ pc \in {"idle", "scan"}
    /\ now < MaxTime
    /\ now' = now + 1
    /\ UNCHANGED <<limit, pc, caller, callVars, idx, srv, histVars>>
    /\ UNCHANGED <<clientVars, learned, methodVars, urlVars, concVars>>

(* ------------- credential-level operations outside the scheduler ------- *)
DirectUrls == {UrlRepos, UrlSearch}

\* GitHubAPIToken.request(url), called directly: raise TokenNotReady, or send
TokenRequestStart(t, u) ==
    /\ pc = "idle"
    /\ ops < MaxOps
    /\ ops' = ops + 1
    /\ caller' = "direct"
    /\ idx' = t
    /\ url' = u
    /\ IF ready(t, u)
       THEN pc' = "wait"
       ELSE pc' = "idle"
    /\ UNCHANGED <<limit, now, paginate, params, paginated_res, timeout_counter,
                   sleep, result, exc, srv, lastHdr, lastCheck, connRun, nTimeouts,
                   lastKind, lastStatus, lastReq>>
    /\ UNCHANGED <<clientVars, learned, methodVars, urlVars, concVars>>

\* self.limit['search'] as _check_limits stores it, from resources.search s
searchLimit(s) == [remaining |-> s.remaining, reset_time |-> s.reset, limit |-> s.limit]

\* GitHubAPIToken.legit: with the core limit unknown, _check_limits asks for rate_limit
LegitStart(t) ==
    /\ pc = "idle"
    /\ ops < MaxOps
    /\ limit[t]["core"].limit = None
    /\ ops' = ops + 1
    /\ caller' = "legit"
    /\ idx' = t
    /\ url' = UrlRateLimit
    /\ IF ready(t, UrlRateLimit)
       THEN /\ pc' = "wait"
            /\ UNCHANGED <<limit, lastCheck>>
       ELSE /\ pc' = "idle"
            /\ limit' = [limit EXCEPT ![t]["search"] = searchLimit(NoSearch)]
            /\ lastCheck' = [lastCheck EXCEPT ![t] = [kind |-> "notready", search |-> NoSearch]]
    /\ UNCHANGED <<now, paginate, params, paginated_res, timeout_counter,
                   sleep, result, exc, srv, lastHdr, connRun, nTimeouts, lastKind,
                   lastStatus, lastReq>>
    /\ UNCHANGED <<clientVars, learned, methodVars, urlVars, concVars>>

\* the search bucket after _check_limits, given what self.request('rate_limit') gave:
\* TokenNotReady: unknown; a body with resources.search: its values; any other
\* exception leaves _check_limits before the assignment
checkedLimit(lim, o, t) ==
    IF excAfter(o) = "TokenNotReady"
    THEN [lim EXCEPT ![t]["search"] = searchLimit(NoSearch)]
    ELSE IF excAfter(o) = "none" /\ o.search # NoSearch
    THEN [lim EXCEPT ![t]["search"] = searchLimit(o.search)]
    ELSE lim

\* requests.request returns or raises for a request outside the scheduler
ReceiveToken(o) ==
    /\ pc = "wait"
    /\ caller \in {"direct", "legit"}
    /\ pc' = "idle"
    /\ now' = IF timedOut(o) THEN Min2(now + timeout, MaxTime) ELSE now
    /\ limit' = IF caller = "legit"
                THEN checkedLimit(limitAfter(o, idx, url), o, idx)
                ELSE limitAfter(o, idx, url)
    /\ lastHdr' = IF o.kind = "http" /\ HasRate(o)
                  THEN [lastHdr EXCEPT ![idx][api_class(url)] = o.headers]
                  ELSE lastHdr
    /\ lastCheck' =
          IF caller = "legit" /\ excAfter(o) = "TokenNotReady"
          THEN [lastCheck EXCEPT ![idx] = [kind |-> "notready", search |-> NoSearch]]
          ELSE IF caller = "legit" /\ excAfter(o) = "none" /\ o.search # NoSearch
          THEN [lastCheck EXCEPT ![idx] = [kind |-> "body", search |-> o.search]]
          ELSE IF o.kind = "http" /\ HasRate(o) /\ api_class(url) = "search"
          THEN [lastCheck EXCEPT ![idx] = NoCheck]
          ELSE lastCheck
    /\ learned' = learnedAfter(o, idx, url)
    /\ UNCHANGED <<caller, callVars, idx, srv, connRun, nTimeouts, lastKind,
                   lastStatus, lastReq, ops>>
    /\ UNCHANGED <<clientVars, methodVars, urlVars, concVars>>

Next ==
    \/ pc = "idle" /\ \E u \in CallUrls, pg \in BOOLEAN : StartCall(u, pg)
    \/ Skip
    \/ Attempt
    \/ pc = "wait" /\ \E o \in Outcomes : Receive(o)
    \/ pc = "jitter" /\ \E j \in JitterLo..JitterHi : JitterWake(j)
    \/ PassEnd
    \/ Wake
    \/ Tick

Spec == Init /\ [][Next]_vars

\* the last request was answered, and not by one of the transient statuses the
\* scheduler retries, nor by a connection error or a timeout
Decided == lastStatus \notin {0, 403, 443, 502}

\* the scheduler's thread keeps running, every sleep ends, every request is
\* answered, and the sequence of answers is fair: requests sent again and again
\* are not answered by connection errors, timeouts and transient statuses only
Fairness ==
    /\ WF_vars(Skip)
    /\ WF_vars(Attempt)
    /\ WF_vars(PassEnd)
    /\ WF_vars(Wake)
    /\ WF_vars(pc = "jitter" /\ \E j \in JitterLo..JitterHi : JitterWake(j))
    /\ []<>(pc # "wait")
    /\ ([]<>(pc = "wait") => []<>Decided)

LiveSpec == Spec /\ Fairness

(* ------------------------- construction of the client ------------------ *)
\* before the first GitHubAPI(): no instance, settings.py configures n credentials
InitClient ==
    /\ InitCall
    /\ project_url = <<>>
    /\ client = "none"
    /\ configured \in {0, NTokens}
    /\ created = 0

\* api = GitHubAPI(): __new__ hands out the one instance, and __init__ runs on it
\* each time: with no credentials configured it raises EnvironmentError, else it
\* builds self.tokens anew, every quota field None
ConstructUnchecked ==
    /\ pc = "idle"
    /\ created < MaxConstructs
    /\ client' = "ready"
    /\ exc' = "none"
    /\ created' = created + 1
    /\ limit' = [t \in Tokens |-> [c \in Classes |-> UnknownLimit]]
    /\ lastHdr' = [t \in Tokens |-> [c \in Classes |-> NoHeaders]]
    /\ lastCheck' = [t \in Tokens |-> NoCheck]
    /\ UNCHANGED <<now, pc, caller, url, paginate, params, paginated_res,
                   timeout_counter, idx, sleep, result, srv, connRun, nTimeouts,
                   lastKind, lastStatus, lastReq, ops, configured, learned, methodVars, urlVars, concVars>>
Construct ==
    /\ pc = "idle"
    /\ created < MaxConstructs
    /\ IF configured = 0
       THEN /\ client' = "failed"
            /\ exc' = "EnvironmentError"
            /\ created' = created
            /\ UNCHANGED <<limit, lastHdr, lastCheck>>
       ELSE /\ client' = "ready"
            /\ exc' = "none"
            /\ created' = created + 1
            /\ limit' = [t \in Tokens |-> [c \in Classes |-> UnknownLimit]]
            /\ lastHdr' = [t \in Tokens |-> [c \in Classes |-> NoHeaders]]
            /\ lastCheck' = [t \in Tokens |-> NoCheck]
    /\ UNCHANGED <<now, pc, caller, url, paginate, params, paginated_res,
                   timeout_counter, idx, sleep, result, srv, connRun, nTimeouts,
                   lastKind, lastStatus, lastReq, ops, configured, learned, methodVars, urlVars, concVars>>

\* the credentials used without the scheduler
NextToken ==
    \/ pc = "idle" /\ \E t \in Tokens, u \in DirectUrls : TokenRequestStart(t, u)
    \/ pc = "idle" /\ \E t \in Tokens : LegitStart(t)
    \/ pc = "wait" /\ \E o \in TokenOutcomes : ReceiveToken(o)
    \/ Tick

SpecToken == Init /\ [][NextToken]_vars

\* a process that constructs the client, again and again, and sends requests
\* through the credentials of the instance it holds
NextClient ==
    \/ Construct
    \/ client = "ready" /\ pc = "idle" /\ \E t \in Tokens : TokenRequestStart(t, UrlRepos)
    \/ pc = "wait" /\ \E o \in TokenOutcomes : ReceiveToken(o)
    \/ Tick

SpecClient == InitClient /\ [][NextClient]_vars

(* --------------------------- endpoint methods --------------------------- *)
\* The methods of GitHubAPI that wrap self.request.  What self.request hands
\* back is the environment's choice among the values it can return for the
\* method's url: {} for the statuses of statusBranch's "empty" branch, or the
\* parsed body.

\* a changed file as api.github.com reports it
File(n) == [filename |-> n, status |-> "modified", additions |-> "1", deletions |-> "0",
            changes |-> "1", blob_url |-> "b", raw_url |-> "r", contents_url |-> "c"]
Files == {File("a.py"), File("b.py")}

\* an issue or a pull request as repos/.../issues and repos/.../pulls list it;
\* pull_request is the value of that key, if the object has it
Issue(n, st, pr) == [user |-> [login |-> IF n = "1" THEN "alice" ELSE "bob"], state |-> st, created_at |-> "t1",
                     updated_at |-> "t2", closed_at |-> IF st = "open" THEN NoneS ELSE "t3",
                     number |-> n, title |-> "T", pull_request |-> pr]
Issues == {Issue(n, st, pr) : n \in {"1", "2"}, st \in {"open", "closed"},
                             pr \in {Missing, NoneS, "pulls/1"}}

\* the author of a commit as GitHub knows it: null, or a user object
NullUser == [null |-> TRUE, login |-> Missing]
User(l) == [null |-> FALSE, login |-> l]
\* commit['commit'].get('author'): the key is absent, or its value is null, or
\* it is an object with (some of) name, email, date
GitAuthor(is, n, e, d) == [is |-> is, name |-> n, email |-> e, date |-> d]
GitAuthors == {GitAuthor("absent", Missing, Missing, Missing),
               GitAuthor("null", Missing, Missing, Missing),
               GitAuthor("obj", Missing, Missing, Missing),
               GitAuthor("obj", "Al", "al@x", "t0")}
\* a commit as repos/.../commits lists it; a message is a sequence of characters
Commit(sha, ga, ca, rich) ==
    [sha |-> sha, author |-> ga,
     commit |-> [author |-> ca,
                 message |-> IF rich THEN <<"a", "\n", "b", "\n">> ELSE <<"a">>,
                 committer |-> [date |-> "t1"]],
     parents |-> IF rich THEN <<[sha |-> "p1"], [sha |-> "p2"]>> ELSE <<>>,
     verification |-> IF rich THEN [is |-> "obj", verified |-> "true"]
                              ELSE [is |-> "absent", verified |-> Missing]]
Commits == {Commit(sha, ga, ca, rich) : sha \in {"c1", "c2"}, ga \in {NullUser, User("alice")},
                                       ca \in GitAuthors, rich \in BOOLEAN}

\* a pull request as repos/.../pulls lists it; the repository of its head is
\* null once the fork is deleted
Pull(n, gone) ==
    [number |-> n, title |-> "T", body |-> "B", labels |-> <<[name |-> "bug"]>>,
     created_at |-> "t1", updated_at |-> "t2", closed_at |-> NoneS, merged_at |-> NoneS,
     user |-> [login |-> "alice"],
     head |-> [label |-> "fork:dev",
               repo |-> IF gone THEN [null |-> TRUE, full_name |-> Missing]
                                ELSE [null |-> FALSE, full_name |-> "fork/x"]],
     base |-> [label |-> "o:master", repo |-> [null |-> FALSE, full_name |-> "o/x"]]]
Pulls == {Pull(1, FALSE), Pull(2, TRUE)}

\* the tags issue_pr_timeline knows, and one that it does not
KnownTags == {"cross-referenced", "referenced", "labeled", "committed", "reviewed",
              "commented", "assigned", "closed", "subscribed", "merged"}
Tags == KnownTags \cup {"unlabeled"}
ActorTags == {"cross-referenced", "referenced", "labeled", "assigned", "closed",
              "subscribed", "merged", "unlabeled"}
\* what the key k of an event of tag tag holds when the tag is one of tags:
\* events of other tags lack the key
field(tag, tags, v) == IF tag \in tags THEN v ELSE Missing
\* an event of repos/.../issues/N/timeline: who is its actor (its user, for a
\* review or a comment) and t its created_at
Event(tag, who, t) ==
    [event |-> tag,
     actor |-> IF tag \in ActorTags THEN who ELSE NullActor,
     user |-> IF tag \in {"reviewed", "commented"} THEN who ELSE NullActor,
     author |-> [name |-> field(tag, {"committed"}, "Al"),
                 email |-> field(tag, {"committed"}, "al@x")],
     sha |-> field(tag, {"committed"}, "abc"),
     commit_id |-> field(tag, {"referenced", "closed", "subscribed", "merged"}, "c1"),
     created_at |-> t,
     label |-> [name |-> field(tag, {"labeled", "unlabeled"}, "bug")],
     author_association |-> field(tag, {"reviewed", "commented"}, "MEMBER"),
     state |-> field(tag, {"reviewed"}, "approved"),
     body |-> field(tag, {"reviewed", "commented"}, "text"),
     source |-> [issue |-> [number |-> field(tag, {"cross-referenced"}, "5"),
                            repository |-> [full_name |-> field(tag, {"cross-referenced"}, "o/y")],
                            pull_request |-> field(tag, {"cross-referenced"}, "pulls/5"),
                            state |-> field(tag, {"cross-referenced"}, "open"),
                            assignees |-> field(tag, {"cross-referenced"}, "bob")]]]
\* the events the method is written for: a comment has a user, a commit has
\* no actor, a reference has its created_at
Events ==
    {Event(tag, who, t) : tag \in Tags \ {"committed", "commented", "referenced"},
                          who \in {NullActor, Actor("alice", "User")}, t \in {"t1", Missing}}
    \cup {Event("committed", NullActor, t) : t \in {"t1", Missing}}
    \cup {Event("commented", Actor("alice", "User"), t) : t \in {"t1", Missing}}
    \cup {Event("referenced", who, "t1") : who \in {NullActor, Actor("alice", "User")}}

\* a comment as repos/.../issues/N/comments lists it
Comment(who) == [body |-> "B", user |-> [login |-> who], created_at |-> "t1", updated_at |-> "t2"]
Comments == {Comment("alice"), Comment("bob")}
\* issue_comments: the record of one comment
commentRecord(comment) ==
    [body |-> comment.body, author |-> comment.user.login,
     created_at |-> comment.created_at, updated_at |-> comment.updated_at]

Methods == {"repo_issues", "repo_pulls", "repo_commits", "pull_request_commits",
            "issue_comments", "issue_pr_timeline", "pr_changedFiles", "commit_changedFile", "repoLastPushDate", "userEmail"}
Generators == Methods \ {"repoLastPushDate", "userEmail"}

\* the number of requests the method makes
phasesOne(m) == 1
phases(m) == IF m = "repo_commits" THEN 2 ELSE 1

\* what self.request can return to method m at its ph-th request
answers(m, ph) ==
    {EmptyDict} \cup
    CASE m \in {"repo_issues", "repo_pulls"} -> {List(is) : is \in SeqsUpTo(Issues, MaxRecs)}
      [] m = "repo_commits" /\ ph = 1 -> {List(cs) : cs \in SeqsUpTo(Commits, MaxRecs)}
      [] m = "repo_commits" /\ ph = 2 -> {List(ps) : ps \in SeqsUpTo(Pulls, MaxRecs)}
      [] m = "pull_request_commits" -> {List(cs) : cs \in SeqsUpTo(Commits, MaxRecs)}
      [] m = "issue_comments" -> {List(cs) : cs \in SeqsUpTo(Comments, MaxRecs)}
      [] m = "issue_pr_timeline" -> {List(es) : es \in SeqsUpTo(Events, MaxRecs)}
      [] m = "pr_changedFiles" -> {List(fs) : fs \in SeqsUpTo(Files, MaxRecs)}
      [] m = "commit_changedFile" ->
            {Dict(<<(<<"sha", "s">>), (<<"files", fs>>)>>) : fs \in SeqsUpTo(Files, MaxRecs)}
      [] m = "repoLastPushDate" -> {Dict(<<(<<"id", "1">>), (<<"pushed_at", "t1">>)>>)}
      [] m = "userEmail" -> {Dict(<<(<<"login", "u">>), (<<"email", e>>)>>) : e \in {"u@x", NoneS}}

\* (a test of the value in place of the key: issue.get('pull_request') is falsy)
notPullByValue(issue) == issue.pull_request \in {Missing, NoneS}
\* repo_issues, repo_pulls: 'pull_request' not in issue
notPull(issue) == issue.pull_request = Missing
\* repo_issues, repo_pulls: the record of one issue
issueRecord(issue) ==
    [author |-> issue.user.login, closed |-> issue.state # "open",
     created_at |-> issue.created_at, updated_at |-> issue.updated_at,
     closed_at |-> issue.closed_at, number |-> issue.number, title |-> issue.title]

\* x or {}, for a nullable object x: empty stands for {}
orEmptyDropped(x, empty) == x
orEmpty(x, empty) == IF x.null THEN empty ELSE x
\* o.get(k), for an object o: a key o lacks gives None
get(o, k) == IF o[k] = Missing THEN NoneS ELSE o[k]
\* str.replace("\n", ","), on a sequence of characters
replaceNL(msg) == [i \in 1..Len(msg) |-> IF msg[i] = "\n" THEN "," ELSE msg[i]]
\* "\n".join(strs), as a sequence of the strings and the separators
RECURSIVE joinNL(_)
joinNL(strs) ==
    IF Len(strs) = 0 THEN <<>>
    ELSE IF Len(strs) = 1 THEN <<strs[1]>>
    ELSE <<strs[1], "\n">> \o joinNL(Tail(strs))

\* parse_commit: the record, or the exception it raises
parse_commit(commit) ==
    LET github_author == orEmpty(commit.author, [null |-> FALSE, login |-> Missing])
        ca == commit.commit.author
        commit_author == orEmpty([null |-> ca.is # "obj", name |-> ca.name,
                                  email |-> ca.email, date |-> ca.date],
                                 [null |-> FALSE, name |-> Missing,
                                  email |-> Missing, date |-> Missing])
    IN  IF github_author.null \/ commit_author.null
        THEN [exc |-> "AttributeError", rec |-> <<>>]
        ELSE [exc |-> "none",
              rec |-> [sha |-> commit.sha,
                       author |-> get(github_author, "login"),
                       author_name |-> get(commit_author, "name"),
                       author_email |-> get(commit_author, "email"),
                       authored_date |-> get(commit_author, "date"),
                       message |-> replaceNL(commit.commit.message),
                       committed_date |-> commit.commit.committer.date,
                       parents |-> joinNL([i \in 1..Len(commit.parents) |-> commit.parents[i].sha]),
                       verified |-> get(commit.verification, "verified")]]

\* repo_commits, second loop: the record of one pull request
pullRecord(pr) ==
    LET head_repo == orEmpty(pr.head.repo, [null |-> FALSE, full_name |-> Missing])
        base_repo == orEmpty(pr.base.repo, [null |-> FALSE, full_name |-> Missing])
    IN  [id |-> pr.number, title |-> pr.title, body |-> pr.body,
         labels |-> [i \in 1..Len(pr.labels) |-> pr.labels[i].name],
         created_at |-> pr.created_at, updated_at |-> pr.updated_at,
         closed_at |-> pr.closed_at, merged_at |-> pr.merged_at,
         author |-> pr.user.login,
         head |-> get(head_repo, "full_name"), head_branch |-> pr.head.label,
         base |-> get(base_repo, "full_name"), base_branch |-> pr.base.label]

\* issue_pr_timeline: the fourteen keys of every dict it yields, with the
\* values most of them have in most branches
blank(tag) ==
    [event |-> tag, author |-> "", email |-> "", author_type |-> "",
     author_association |-> "", commit_id |-> "", created_at |-> "", id |-> "",
     repo |-> "", type |-> "", state |-> "", assignees |-> "", label |-> "", body |-> ""]
\* the record for an event with an actor, but for the fields only some tags fill
byActor(e, a, ty) ==
    [blank(e.event) EXCEPT !.author = get(a, "login"), !.author_type = get(a, "type"),
                           !.created_at = get(e, "created_at"), !.type = ty]
\* the else branch: (one that shows the author of the event before)
timelineElseStale(e, a) ==
    [rec |-> [blank(e.event) EXCEPT !.author = IF a.null THEN "" ELSE get(a, "login"),
                                    !.created_at = get(e, "created_at")],
     author |-> a]
\* (one that does not copy created_at)
timelineElseNoDate(e, a) == [rec |-> blank(e.event), author |-> a]
\* the else branch
timelineElse(e, a) ==
    [rec |-> [blank(e.event) EXCEPT !.created_at = get(e, "created_at")], author |-> a]
\* issue_pr_timeline: one turn of the loop on event e, the local author being
\* a: the record and the local author afterwards
timeline(e, a) ==
    LET tag == e.event
        actor == orEmpty(e.actor, Actor(Missing, Missing))
        user == orEmpty(e.user, Actor(Missing, Missing))
        issue == e.source.issue
    IN  CASE tag = "cross-referenced" ->
               [rec |-> [byActor(e, actor, IF issue.pull_request # Missing
                                            THEN "pull_request" ELSE "issue")
                           EXCEPT !.id = issue.number, !.repo = issue.repository.full_name,
                                  !.state = issue.state, !.assignees = issue.assignees],
                author |-> actor]
          [] tag = "referenced" ->
               [rec |-> [byActor(e, actor, "commit") EXCEPT !.commit_id = e.commit_id,
                                                            !.created_at = e.created_at],
                author |-> actor]
          [] tag = "labeled" ->
               [rec |-> [byActor(e, actor, "label") EXCEPT !.label = e.label.name],
                author |-> actor]
          [] tag = "committed" ->
               [rec |-> [blank(tag) EXCEPT !.author = e.author.name, !.email = e.author.email,
                                           !.commit_id = e.sha,
                                           !.created_at = get(e, "created_at"),
                                           !.type = "commit"],
                author |-> a]
          [] tag = "reviewed" ->
               [rec |-> [byActor(e, user, "review")
                           EXCEPT !.author_association = e.author_association,
                                  !.state = e.state],
                author |-> user]
          [] tag = "commented" ->
               [rec |-> [blank(tag) EXCEPT !.author = e.user.login, !.author_type = e.user.type,
                                           !.author_association = e.author_association,
                                           !.created_at = get(e, "created_at"),
                                           !.type = "comment", !.body = e.body],
                author |-> a]
          [] tag = "assigned" -> [rec |-> byActor(e, actor, "comment"), author |-> actor]
          [] tag = "closed" ->
               [rec |-> [byActor(e, actor, "close") EXCEPT !.commit_id = e.commit_id],
                author |-> actor]
          [] tag = "subscribed" ->
               [rec |-> [byActor(e, actor, "subscribed") EXCEPT !.commit_id = e.commit_id,
                                                                !.id = e.commit_id],
                author |-> actor]
          [] tag = "merged" ->
               [rec |-> [byActor(e, actor, "merged") EXCEPT !.commit_id = e.commit_id,
                                                            !.id = e.commit_id],
                author |-> actor]
          [] OTHER -> timelineElse(e, a)
\* the exception the branch for the event's tag raises: a key it indexes is
\* not there (KeyError), or the user of a comment is null (TypeError)
timelineExc(e) ==
    LET tag == e.event IN
    IF tag = "commented" /\ e.user.null THEN "TypeError"
    ELSE IF
    /\ tag = "cross-referenced" => e.source.issue.number # Missing
    /\ tag \in {"referenced", "closed", "subscribed", "merged"} => e.commit_id # Missing
    /\ tag = "referenced" => e.created_at # Missing
    /\ tag = "labeled" => e.label.name # Missing
    /\ tag = "committed" => (e.author.name # Missing /\ e.sha # Missing)
    /\ tag \in {"reviewed", "commented"} => e.author_association # Missing
    THEN "none" ELSE "KeyError"

\* pr_changedFiles: the record of one file
prFile(f) == [filename |-> f.filename, status |-> f.status, additions |-> f.additions,
              deletions |-> f.deletions, changes |-> f.changes, blob_url |-> f.blob_url,
              raw_url |-> f.raw_url, contents_url |-> f.contents_url]
\* commit_changedFile: the record of one file
commitFile(f) == [filename |-> f.filename, status |-> f.status, additions |-> f.additions,
                  deletions |-> f.deletions, changes |-> f.changes]

\* the sequence the method's for loop runs over, or the exception raised on
\* the way to it
iterable(m, ph, d) ==
    IF m \in {"repoLastPushDate", "userEmail"} THEN [exc |-> "none", seq |-> <<>>]
    ELSE IF m = "commit_changedFile"
    THEN IF haskey(d, "files") THEN [exc |-> "none", seq |-> getitem(d, "files")]
                               ELSE [exc |-> "KeyError", seq |-> <<>>]
    ELSE [exc |-> "none", seq |-> iter(d)]

\* one turn of the method's for loop on element e, the local author being a:
\* whether a record is yielded, the record, the exception raised instead, and
\* the local author afterwards
body(m, ph, e, a) ==
    CASE m \in {"repo_issues", "repo_pulls"} ->
            [yield |-> notPull(e), rec |-> issueRecord(e), exc |-> "none", author |-> a]
      [] (m = "repo_commits" /\ ph = 1) \/ m = "pull_request_commits" ->
            [yield |-> TRUE, rec |-> parse_commit(e).rec, exc |-> parse_commit(e).exc, author |-> a]
      [] m = "repo_commits" /\ ph = 2 ->
            [yield |-> TRUE, rec |-> pullRecord(e), exc |-> "none", author |-> a]
      [] m = "issue_pr_timeline" ->
            [yield |-> TRUE, rec |-> timeline(e, a).rec,
             exc |-> timelineExc(e),
             author |-> timeline(e, a).author]
      [] m = "pr_changedFiles" -> [yield |-> TRUE, rec |-> prFile(e), exc |-> "none", author |-> a]
      [] m = "issue_comments" -> [yield |-> TRUE, rec |-> commentRecord(e), exc |-> "none", author |-> a]
      [] m = "commit_changedFile" -> [yield |-> TRUE, rec |-> commitFile(e), exc |-> "none", author |-> a]

\* the value of the return statement
returned(m, d) ==
    CASE m = "repoLastPushDate" -> IF Len(d.items) = 0 THEN "" ELSE getitem(d, "pushed_at")
      [] m = "userEmail" -> IF Len(d.items) = 0 THEN "" ELSE getitem(d, "email")
      [] OTHER -> NoReturn

\* api.m(...): a generator function returns its generator without running
\* any of its body; a plain function starts with its request
CallMethod(m) ==
    /\ mpc = "none"
    /\ method' = m
    /\ mpc' = IF m \in Generators THEN "created" ELSE "fetch"
    /\ UNCHANGED <<phase, data, cur, yielded, ret, mexc, author, empties>>
    /\ UNCHANGED <<schedVars, v4Vars, urlVars, concVars>>

\* the consumer asks the generator for its first record
FirstNext ==
    /\ mpc = "created"
    /\ mpc' = "fetch"
    /\ UNCHANGED <<method, phase, data, cur, yielded, ret, mexc, author, empties>>
    /\ UNCHANGED <<schedVars, v4Vars, urlVars, concVars>>

\* self.request(...) returns d
Fetched(d) ==
    /\ mpc = "fetch"
    /\ data' = d
    /\ cur' = 1
    /\ mpc' = "body"
    /\ empties' = IF d = EmptyDict THEN empties + 1 ELSE empties
    /\ UNCHANGED <<method, phase, yielded, ret, mexc, author>>
    /\ UNCHANGED <<schedVars, v4Vars, urlVars, concVars>>

\* self.request(...) raises: the method does not catch anything
FetchRaised(e) ==
    /\ mpc = "fetch"
    /\ mexc' = e
    /\ mpc' = "raised"
    /\ UNCHANGED <<method, phase, data, cur, yielded, ret, author, empties>>
    /\ UNCHANGED <<schedVars, v4Vars, urlVars, concVars>>

\* the code after the request, up to the next yield, request, return or raise
MethodStep ==
    /\ mpc = "body"
    /\ \E it \in {iterable(method, phase, data)} :
         IF it.exc # "none"
         THEN /\ mexc' = it.exc
              /\ mpc' = "raised"
              /\ UNCHANGED <<phase, cur, yielded, ret, author>>
         ELSE IF cur > Len(it.seq)
         THEN /\ IF phase < phases(method)
                 THEN /\ phase' = phase + 1
                      /\ mpc' = "fetch"
                      /\ ret' = ret
                 ELSE /\ phase' = phase
                      /\ mpc' = "done"
                      /\ ret' = returned(method, data)
              /\ UNCHANGED <<cur, yielded, mexc, author>>
         ELSE \E b \in {body(method, phase, it.seq[cur], author)} :
              IF b.exc # "none"
              THEN /\ mexc' = b.exc
                   /\ mpc' = "raised"
                   /\ UNCHANGED <<phase, cur, yielded, ret, author>>
              ELSE /\ yielded' = IF b.yield THEN Append(yielded, b.rec) ELSE yielded
                   /\ cur' = cur + 1
                   /\ author' = b.author
                   /\ UNCHANGED <<phase, mpc, ret, mexc>>
    /\ UNCHANGED <<method, data, empties>>
    /\ UNCHANGED <<schedVars, v4Vars, urlVars, concVars>>

RequestErrors == {"ConnectionError", "Timeout", "HTTPError"}

NextEndpoint ==
    \/ \E m \in Methods : CallMethod(m)
    \/ FirstNext
    \/ mpc = "fetch" /\ \E d \in answers(method, phase) : Fetched(d)
    \/ \E e \in RequestErrors : FetchRaised(e)
    \/ MethodStep

SpecEndpoint == Init /\ [][NextEndpoint]_vars

(* ------------- a paginated method on top of the scheduler -------------- *)
\* the generator methods that make one request with paginate=True
PaginatedMethods == {"repo_issues", "repo_pulls", "pull_request_commits", "issue_comments",
                     "issue_pr_timeline", "pr_changedFiles"}

\* the JSON object the item it = <<page, k>> of the listed resource is
element(m, it) ==
    CASE m \in {"repo_issues", "repo_pulls"} ->
            Issue(IF it[1] = 1 THEN "1" ELSE "2", "open", Missing)
      [] m = "pull_request_commits" ->
            Commit(IF it[1] = 1 THEN "c1" ELSE "c2", User("alice"),
                   GitAuthor("obj", "Al", "al@x", "t0"), FALSE)
      [] m = "issue_comments" -> Comment(IF it[1] = 1 THEN "alice" ELSE "bob")
      [] m = "issue_pr_timeline" ->
            Event(IF it[1] = 1 THEN "labeled" ELSE "closed", Actor("alice", "User"), "t1")
      [] m = "pr_changedFiles" -> File(IF it[1] = 1 THEN "a.py" ELSE "b.py")

\* what self.request(url, paginate=True) hands to the method: {} or the list
delivered(m, res) ==
    IF res.kind = "dict" THEN res
    ELSE List([i \in 1..Len(res.items) |-> element(m, res.items[i])])

\* the outcomes of the requests of such a call that are told apart here: a page,
\* an absent resource, a server error, a bad gateway or a read timeout, with
\* no rate-limit headers or with those of a credential that is spent
PaginatedOutcomes ==
    {o \in Outcomes :
        /\ o.kind \in {"http", "timeout"}
        /\ o.status \in {0, 200, 404, 500, 502}
        /\ o.headers \in {NoHeaders,
                           [Remaining |-> Str(0), Reset |-> Str(MaxReset),
                            Limit |-> LimitHeader("core")]}}

\* the method's code from the first next() on: self.request(url, paginate=True)
\* runs to its end, and the for loop starts on what it returned or the method
\* ends with what it raised
NextPaginated ==
    \/ \E m \in PaginatedMethods : CallMethod(m)
    \/ FirstNext
    \/ mpc = "fetch" /\ pc = "idle" /\ \E u \in CallUrls : StartCall(u, TRUE)
    \/ Skip
    \/ Attempt
    \/ pc = "wait" /\ \E o \in PaginatedOutcomes : Receive(o)
    \/ pc = "jitter" /\ \E j \in JitterLo..JitterHi : JitterWake(j)
    \/ PassEnd
    \/ Wake
    \/ pc = "returned" /\ Fetched(delivered(method, result))
    \/ pc = "raised" /\ FetchRaised(exc)
    \/ MethodStep

SpecPaginated == Init /\ [][NextPaginated]_vars

(* ------------- GitHubAPI.request called by several threads ------------- *)
\* Each caller runs the scheduler's loop on the shared credentials. A step is
\* what a thread does between two points where another thread can run: one
\* read of a credential's dict, one assignment to it, one request, one sleep.

\* the keys that one assignment statement of GitHubAPIToken.request stores in
\* self.limit[api_class(url)]: a single statement stores the new dict
writtenOneByOne == <<{"remaining"}, {"reset_time"}, {"limit"}>>
written == <<{"remaining", "reset_time", "limit"}>>

\* the quota headers the server sends a caller: none, those of a spent
\* credential, or those of a credential with quota
CallerHeaders ==
    {NoHeaders,
     [Remaining |-> Str(0), Reset |-> Str(1), Limit |-> LimitHeader(api_class(url))],
     [Remaining |-> Str(1), Reset |-> Str(MaxReset), Limit |-> LimitHeader(api_class(url))]}

\* what requests.request gives a caller: 200 or 403 with those headers
CallerOutcomes ==
    {[kind |-> "http", status |-> st, headers |-> h, json |-> Json(<<>>), link |-> NoLink,
      pg |-> NoPage, search |-> NoSearch] : st \in {200, 403}, h \in CallerHeaders}

\* the caller goes on: `continue`, to the next credential of its for loop
onward(c) == [c EXCEPT !.pc = "when", !.idx = c.idx + 1, !.stage = 1, !.k = 1]
\* ready() said yes: the scheduler calls token.request, which asks ready()
\* again and then sends
passed(c) ==
    IF c.stage = 1 THEN [c EXCEPT !.pc = "when", !.stage = 2]
    ELSE [c EXCEPT !.pc = "wait"]

\* api.request(url) is called on thread w
CStart(w) ==
    /\ thr[w].pc = "idle"
    /\ thr' = [thr EXCEPT ![w] = [IdleCaller EXCEPT !.pc = "when"]]
    /\ UNCHANGED <<schedVars, methodVars, urlVars, received>>

\* when(): if self.limit[key]['remaining'] != 0: return 0
CWhenRemaining(w) ==
    /\ thr[w].pc = "when"
    /\ thr[w].idx <= NTokens
    /\ thr' = [thr EXCEPT ![w] =
                  IF limit[thr[w].idx][api_class(url)].remaining # 0
                  THEN passed(thr[w])
                  ELSE [thr[w] EXCEPT !.pc = "when2"]]
    /\ UNCHANGED <<schedVars, methodVars, urlVars, received>>

\* when(): return self.limit[key]['reset_time']; ready(): not t or t <= time.time();
\* not ready: the scheduler's `continue`, or TokenNotReady and its `continue`
CWhenReset(w) ==
    /\ thr[w].pc = "when2"
    /\ \E t \in {limit[thr[w].idx][api_class(url)].reset_time} :
          thr' = [thr EXCEPT ![w] =
                    IF t = None \/ t = 0 \/ t <= now
                    THEN passed(thr[w])
                    ELSE onward(thr[w])]
    /\ UNCHANGED <<schedVars, methodVars, urlVars, received>>

\* requests.request returns r to thread w
CReceive(w, o) ==
    /\ thr[w].pc = "wait"
    /\ thr' = [thr EXCEPT ![w] = [thr[w] EXCEPT !.r = o,
                                                !.pc = IF HasRate(o) THEN "store" ELSE "handle"]]
    /\ received' = IF HasRate(o)
                   THEN [received EXCEPT ![thr[w].idx] = @ \cup {HeaderLimit(o)}]
                   ELSE received
    /\ UNCHANGED <<schedVars, methodVars, urlVars>>

\* self.limit[self.api_class(url)] = {...}: the k-th store of the statement
CStore(w) ==
    /\ thr[w].pc = "store"
    /\ limit' = [limit EXCEPT ![thr[w].idx][api_class(url)] =
                    [f \in {"remaining", "reset_time", "limit"} |->
                        IF f \in written[thr[w].k] THEN HeaderLimit(thr[w].r)[f] ELSE @[f]]]
    /\ thr' = [thr EXCEPT ![w] =
                  IF thr[w].k = Len(written)
                  THEN [thr[w] EXCEPT !.pc = "handle"]
                  ELSE [thr[w] EXCEPT !.k = thr[w].k + 1]]
    /\ UNCHANGED <<now, pc, caller, callVars, idx, srv, histVars, clientVars, learned>>
    /\ UNCHANGED <<methodVars, urlVars, received>>

\* the rest of token.request and the scheduler's branches on r: TokenNotReady
\* and 403 go on with the next credential, 200 returns r.json()
CHandle(w) ==
    /\ thr[w].pc = "handle"
    /\ thr' = [thr EXCEPT ![w] =
                  IF excAfter(thr[w].r) = "TokenNotReady" THEN onward(thr[w])
                  ELSE IF statusBranch(thr[w].r.status) = "jitter" THEN onward(thr[w])
                  ELSE [thr[w] EXCEPT !.pc = "done"]]
    /\ UNCHANGED <<schedVars, methodVars, urlVars, received>>

\* the for loop of thread w is over: sleep if sleep > 0, then the next pass
CPassEnd(w) ==
    /\ thr[w].pc = "when"
    /\ thr[w].idx = NTokens + 1
    /\ thr' = [thr EXCEPT ![w] =
                  IF sleepFor > 0
                  THEN [thr[w] EXCEPT !.pc = "sleeping", !.wake = Min2(now + sleepFor, MaxTime)]
                  ELSE [thr[w] EXCEPT !.idx = 1, !.stage = 1]]
    /\ UNCHANGED <<schedVars, methodVars, urlVars, received>>

\* time.sleep(sleep) of thread w is over
CWake(w) ==
    /\ thr[w].pc = "sleeping"
    /\ now' = IF thr[w].wake > now THEN thr[w].wake ELSE now
    /\ thr' = [thr EXCEPT ![w] = [thr[w] EXCEPT !.pc = "when", !.idx = 1, !.stage = 1, !.wake = 0]]
    /\ UNCHANGED <<limit, pc, caller, callVars, idx, srv, histVars, clientVars, learned>>
    /\ UNCHANGED <<methodVars, urlVars, received>>

NextConcurrent ==
    \/ \E w \in Callers : CStart(w)
    \/ \E w \in Callers : CWhenRemaining(w)
    \/ \E w \in Callers : CWhenReset(w)
    \/ \E w \in Callers : \E o \in CallerOutcomes : CReceive(w, o)
    \/ \E w \in Callers : CStore(w)
    \/ \E w \in Callers : CHandle(w)
    \/ \E w \in Callers : CPassEnd(w)
    \/ \E w \in Callers : CWake(w)
    \/ Tick

SpecConcurrent == Init /\ [][NextConcurrent]_vars

(* ------------------------------ GitHubAPIv4 ----------------------------- *)
V4Methods == {"v4.repo_issues", "v4.repo_commits"}

\* the nodes of the two queries; the user of a commit's author is null when
\* no account is linked to the author's email
IssueNode(n) == [author |-> [login |-> "alice"], closed |-> "false", createdAt |-> "t1",
                 updatedAt |-> "t2", number |-> n, title |-> "T"]
CommitNode(sha, u) == [sha |-> sha, message |-> "m", committedDate |-> "t1",
                       author |-> [name |-> "Al", email |-> "al@x", user |-> u]]
nodes(m) == IF m = "v4.repo_issues" THEN {IssueNode(n) : n \in {"1", "2"}}
            ELSE {CommitNode(sha, u) : sha \in {"c1", "c2"}, u \in {NullUser, User("alice")}}

\* ['data']['repository'] of an answer: null, or the object holding the
\* connection (issues, or ref.target.history) with its nodes and pageInfo
NullRepo == [null |-> TRUE, conn |-> Dict(<<>>)]
Page(ns, end, more) ==
    [null |-> FALSE,
     conn |-> Dict(<<(<<"nodes", ns>>),
                     (<<"pageInfo", [endCursor |-> end, hasNextPage |-> more]>>)>>)]
\* what the server can answer to the k-th request of the method; it has at
\* most MaxPages pages
v4answers(m, k) ==
    {NullRepo} \cup
    {Page(ns, end, more) : ns \in SeqsUpTo(nodes(m), MaxRecs), end \in {"k1", "k2"},
                           more \in IF k < MaxPages THEN BOOLEAN ELSE {FALSE}}

\* what the for loop runs over: data["issues"], a dict, gives its keys, which
\* are strings; data["ref"]["target"]["history"]["nodes"] gives the nodes
elems(m, conn) ==
    IF m = "v4.repo_issues"
    THEN [i \in 1..Len(iter(conn)) |-> [str |-> TRUE, v |-> iter(conn)[i]]]
    ELSE [i \in 1..Len(getitem(conn, "nodes")) |-> [str |-> FALSE, v |-> getitem(conn, "nodes")[i]]]

\* one turn of the for loop on element e: the record, or the exception of
\* indexing a string (e['author']) or None (commit['author']['user']['login'])
v4body(m, e) ==
    IF e.str THEN [exc |-> "TypeError", rec |-> <<>>]
    ELSE IF m = "v4.repo_issues"
    THEN [exc |-> "none",
          rec |-> [author |-> e.v.author.login, closed |-> e.v.closed,
                   created_at |-> e.v.createdAt, updated_at |-> e.v.updatedAt,
                   closed_at |-> NoneS, number |-> e.v.number, title |-> e.v.title]]
    ELSE IF e.v.author.user.null THEN [exc |-> "TypeError", rec |-> <<>>]
    ELSE [exc |-> "none",
          rec |-> [sha |-> e.v.sha, author |-> e.v.author.user.login,
                   author_name |-> e.v.author.name, author_email |-> e.v.author.email,
                   authored_date |-> NoneS, message |-> e.v.message,
                   committed_date |-> e.v.committedDate, parents |-> NoneS,
                   verified |-> NoneS]]

\* api.repo_issues(repo_name, c) / api.repo_commits(repo_name, c) on a GitHubAPIv4
CallV4(m, c) ==
    /\ mpc = "none"
    /\ method' = m
    /\ arg' = c
    /\ cursor' = c
    /\ mpc' = "created"
    /\ UNCHANGED <<phase, data, cur, yielded, ret, mexc, author, empties, sent, served>>
    /\ UNCHANGED <<schedVars, urlVars, concVars>>

\* self.v4(query, ..., cursor=cursor)['data']['repository'] is d
FetchedV4(d) ==
    /\ mpc = "fetch"
    /\ method \in V4Methods
    /\ sent' = Append(sent, cursor)
    /\ served' = Append(served, d)
    /\ data' = d
    /\ cur' = 1
    /\ mpc' = "body"
    /\ UNCHANGED <<method, phase, yielded, ret, mexc, author, empties, cursor, arg>>
    /\ UNCHANGED <<schedVars, urlVars, concVars>>

\* the code after the request, up to the next yield, request, break or raise
V4Step ==
    /\ mpc = "body"
    /\ method \in V4Methods
    /\ IF data.null
       THEN /\ mpc' = "done"
            /\ UNCHANGED <<cur, yielded, mexc, cursor>>
       ELSE \E it \in {elems(method, data.conn)} :
            IF cur <= Len(it)
            THEN \E b \in {v4body(method, it[cur])} :
                 IF b.exc # "none"
                 THEN /\ mexc' = b.exc
                      /\ mpc' = "raised"
                      /\ UNCHANGED <<cur, yielded, cursor>>
                 ELSE /\ yielded' = Append(yielded, b.rec)
                      /\ cur' = cur + 1
                      /\ UNCHANGED <<mpc, mexc, cursor>>
            ELSE /\ cursor' = getitem(data.conn, "pageInfo").endCursor
                 /\ mpc' = IF getitem(data.conn, "pageInfo").hasNextPage THEN "fetch" ELSE "done"
                 /\ UNCHANGED <<cur, yielded, mexc>>
    /\ UNCHANGED <<method, phase, data, ret, author, empties, arg, sent, served>>
    /\ UNCHANGED <<schedVars, urlVars, concVars>>

NextGraphQL ==
    \/ \E m \in V4Methods, c \in {NoneS, "k0"} : CallV4(m, c)
    \/ FirstNext
    \/ mpc = "fetch" /\ \E d \in v4answers(method, Len(sent) + 1) : FetchedV4(d)
    \/ \E e \in RequestErrors : FetchRaised(e)
    \/ V4Step

SpecGraphQL == Init /\ [][NextGraphQL]_vars

(* ----------------------------- canonical_url ---------------------------- *)
\* Strings are sequences of characters.
UpperCase == <<"A", "B", "C", "D", "E", "F", "G", "H", "I", "J", "K", "L", "M", "N", "O", "P", "Q", "R", "S", "T", "U", "V", "W", "X", "Y", "Z">>
LowerCase == <<"a", "b", "c", "d", "e", "f", "g", "h", "i", "j", "k", "l", "m", "n", "o", "p", "q", "r", "s", "t", "u", "v", "w", "x", "y", "z">>
\* str.lower()
lower(str) ==
    [i \in 1..Len(str) |->
        IF \E k \in 1..Len(UpperCase) : UpperCase[k] = str[i]
        THEN LowerCase[CHOOSE k \in 1..Len(UpperCase) : UpperCase[k] = str[i]]
        ELSE str[i]]
\* str.endswith(chunk)
endswith(str, chunk) ==
    Len(chunk) <= Len(str) /\ SubSeq(str, Len(str) - Len(chunk) + 1, Len(str)) = chunk
\* if url.startswith(chunk): url = url[len(chunk):]
lstrip(str, chunk) ==
    IF startswith(str, chunk) THEN SubSeq(str, Len(chunk) + 1, Len(str)) ELSE str
\* while url.endswith(".git"): url = url[:-4]
RECURSIVE stripGit(_)
stripGit(str) ==
    IF endswith(str, <<".", "g", "i", "t">>) THEN stripGit(SubSeq(str, 1, Len(str) - 4)) ELSE str

\* the three chunks of the for loop, in its order
Chunk1 == <<"h", "t", "t", "p", "p", ":", "/", "/">>
Chunk2 == <<"h", "t", "t", "p", "s", ":", "/", "/">>
Chunk3 == <<"g", "i", "t", "h", "u", "b", ".", "c", "o", "m">>

canonical_url(purl) ==
    LET u0 == lower(purl)
        u1 == lstrip(u0, Chunk1)
        u2 == lstrip(u1, Chunk2)
        u3 == lstrip(u2, Chunk3)
        u4 == IF endswith(u3, <<"/">>) THEN SubSeq(u3, 1, Len(u3) - 1) ELSE u3
        u5 == stripGit(u4)
    IN  <<"g", "i", "t", "h", "u", "b", ".", "c", "o", "m", "/">> \o u5

\* the arguments: a prefix, an owner/name, a suffix
Prefixes == {<<>>, <<"h", "t", "t", "p", ":", "/", "/">>, <<"h", "t", "t", "p", "s", ":", "/", "/">>, <<"g", "i", "t", "h", "u", "b", ".", "c", "o", "m", "/">>, <<"h", "t", "t", "p", ":", "/", "/", "g", "i", "t", "h", "u", "b", ".", "c", "o", "m", "/">>, <<"h", "t", "t", "p", "s", ":", "/", "/", "g", "i", "t", "h", "u", "b", ".", "c", "o", "m", "/">>, <<"H", "T", "T", "P", "S", ":", "/", "/", "G", "i", "t", "H", "u", "b", ".", "c", "o", "m", "/">>}
Names == {<<"p", "a", "n", "d", "a", "s", "-", "D", "E", "V", "/", "p", "a", "n", "d", "a", "s">>, <<"d", "j", "a", "n", "g", "o", "/", "d", "j", "a", "n", "g", "o">>, <<"A", "/", "B">>, <<"a", "/", "b", ".", "g", "i", "t", "h", "u", "b", ".", "i", "o">>}
Suffixes == {<<>>, <<"/">>, <<".", "g", "i", "t">>, <<".", "g", "i", "t", ".", "g", "i", "t">>, <<".", "g", "i", "t", "/">>}
ProjectUrls == {pre \o nm \o suf : pre \in Prefixes, nm \in Names, suf \in Suffixes}

\* the function needs no client
InitUrl ==
    /\ InitCall
    /\ client = "none"
    /\ configured = NTokens
    /\ created = 0
    /\ project_url \in ProjectUrls

\* canonical_url(project_url)
Canonicalize ==
    /\ canon = <<>>
    /\ canon' = canonical_url(project_url)
    /\ UNCHANGED <<schedVars, methodVars, project_url, canon2, concVars>>

\* canonical_url(canonical_url(project_url)): the function on its own result
Recanonicalize ==
    /\ canon # <<>>
    /\ canon2 = <<>>
    /\ canon2' = canonical_url(canon)
    /\ UNCHANGED <<schedVars, methodVars, project_url, canon, concVars>>

NextUrl == Canonicalize \/ Recanonicalize

SpecUrl == InitUrl /\ [][NextUrl]_vars

(* ======================= properties of the scheduler ==================== *)
Terminal == pc \in {"returned", "raised"}
quota(t) == limit[t][api_class(url)]
Exhausted(t) == quota(t).remaining = 0 /\ quota(t).reset_time > now

\* C1: every HTTP request of GitHubAPI.request is in flight on a credential that
\* was ready when it was selected: its remaining quota for the url's class is
\* not 0, or its reset time has been reached; no request is sent on a
\* credential that is not ready.
C1_RequestOnlyOnReady ==
    (pc = "wait" /\ caller = "api") =>
        (quota(idx).remaining # 0 \/ quota(idx).reset_time <= now)

\* a request in flight on the second credential while the first is not ready
C1_Witness ==
    /\ pc = "wait"
    /\ caller = "api"
    /\ idx = 2
    /\ Exhausted(1)

\* C3: a response with status 404, 451, 409 or 410 ends the call at once with
\* the empty result: nothing is raised, and the call is over, so that no
\* further request is sent and nothing sleeps.
C3_AbsentReturnsEmpty ==
    (caller = "api" /\ lastStatus \in {404, 451, 409, 410}) =>
        /\ pc = "returned"
        /\ result = EmptyDict
        /\ exc = "none"

\* a 410 on the second credential, after a timeout on the first, returned {}
C3_Witness ==
    /\ lastStatus = 410
    /\ pc = "returned"
    /\ result = EmptyDict
    /\ idx = 2
    /\ timeout_counter = 1

\* C4: under a fair sequence of answers, every call of GitHubAPI.request that
\* was started eventually returns a result or raises.
C4_ForwardProgress == (caller = "api") ~> Terminal

\* a call returned after the scheduler had to sleep for an exhausted pool
C4_Witness ==
    /\ pc = "returned"
    /\ sleep > 0
    /\ result.kind = "list"

\* the least reset time of the pool for the url's class
MinReset == CHOOSE m \in {quota(t).reset_time : t \in Tokens} :
                \A t \in Tokens : m <= quota(t).reset_time
AllSpent == \A t \in Tokens : quota(t).remaining = 0

\* C5: with every credential of the pool at remaining = 0 for the url's class,
\* a request is in flight only once the least of their reset times has been
\* reached, and a sleep of the scheduler ends no earlier than that instant.
C5_NoRequestBeforeMinReset ==
    /\ (pc = "wait" /\ caller = "api" /\ AllSpent) => now >= MinReset
    /\ (pc = "sleeping" /\ AllSpent) => now + sleep >= MinReset

\* the pool was exhausted, the scheduler slept, and a request is in flight
C5_Witness ==
    /\ pc = "wait"
    /\ caller = "api"
    /\ AllSpent
    /\ sleep > 1

\* C6: with a pool of n credentials, the (n+1)-th connection error in a row
\* within one call is raised to the caller.
C6_ConnErrorsRaise ==
    (caller = "api" /\ connRun > NTokens) =>
        (pc = "raised" /\ caught(exc, "ConnectionError"))

\* C7: within one call every request timeout is counted, and the timeout that
\* takes the count above the size of the pool is raised to the caller.
C7_TimeoutsCounted ==
    caller = "api" =>
        /\ timeout_counter = nTimeouts
        /\ nTimeouts > NTokens => (pc = "raised" /\ caught(exc, "Timeout"))

\* C8: a response whose status is neither 2xx nor one of 404, 451, 409, 410,
\* 403, 443, 502 makes the call raise.
C8_OtherStatusRaises ==
    (/\ caller = "api"
     /\ lastStatus # 0
     /\ ~(200 <= lastStatus /\ lastStatus < 300)
     /\ lastStatus \notin {404, 451, 409, 410, 403, 443, 502}) =>
        (pc = "raised" /\ exc # "none")

\* the items of the first k pages the server served, in server order
RECURSIVE pagesUpTo(_)
pagesUpTo(k) == IF k = 0 THEN <<>> ELSE pagesUpTo(k - 1) \o Items(k, srv[k].n)

\* C9: a paginated call that returned a list after the server served N pages,
\* all of them non-empty and the last one without rel="next", returned the
\* items of pages 1..N in server order, each page once.
C9_PaginationConcatenates ==
    (/\ caller = "api"
     /\ paginate
     /\ pc = "returned"
     /\ result.kind = "list"
     /\ Len(srv) > 0
     /\ \A k \in 1..Len(srv) : srv[k].n > 0
     /\ ~srv[Len(srv)].next) =>
        result.items = pagesUpTo(Len(srv))

\* two non-empty pages were returned, with a timeout on the way
C9_Witness ==
    /\ paginate
    /\ pc = "returned"
    /\ Len(srv) >= 2
    /\ \A k \in 1..Len(srv) : srv[k].n > 0
    /\ Len(result.items) >= 2
    /\ timeout_counter > 0

\* C10: in a paginated call the request in flight asks for the page after the
\* ones already answered, with per_page = 100; all pages answered before it
\* were non-empty, carried rel="next" and have been appended; and once a page
\* came back empty or without rel="next" the call has returned.
C10_PagesInOrder ==
    (caller = "api" /\ paginate) =>
        /\ pc = "wait" =>
              /\ params.page = Len(srv) + 1
              /\ params.per_page = 100
              /\ \A k \in 1..Len(srv) : srv[k].n > 0 /\ srv[k].next
              /\ paginated_res = pagesUpTo(Len(srv))
        /\ (Len(srv) > 0 /\ (srv[Len(srv)].n = 0 \/ ~srv[Len(srv)].next)) =>
              /\ pc = "returned"
              /\ result = List(pagesUpTo(Len(srv)))

\* page 2 is asked for on the second credential
C10_Witness ==
    /\ caller = "api"
    /\ paginate
    /\ pc = "wait"
    /\ params.page = 2
    /\ idx = 2

\* C11: TokenNotReady never leaves GitHubAPI.request: the call never raises it,
\* and after a credential answered with it the scheduler is scanning on or
\* sleeping.
C11_QuotaSignalStaysInside ==
    caller = "api" =>
        /\ exc # "TokenNotReady"
        /\ ~caught(exc, "TokenNotReady")
        /\ lastKind = "exhausted" => pc \in {"scan", "sleeping"}

\* the first credential answered 403 with nothing remaining, and the scheduler
\* went on to the second
C11_Witness ==
    /\ caller = "api"
    /\ lastKind = "exhausted"
    /\ lastStatus = 403
    /\ pc = "scan"
    /\ idx = 2

(* ======================= properties of the credentials =================== *)
\* the bucket the last header-carrying response of credential t, class c, gives
fromHeaders(t, c) ==
    IF lastHdr[t][c] = NoHeaders
    THEN UnknownLimit
    ELSE [limit |-> int(lastHdr[t][c].Limit),
          remaining |-> int(lastHdr[t][c].Remaining),
          reset_time |-> int(lastHdr[t][c].Reset)]

\* C2 as stated: every bucket of every credential is unknown while no response
\* with rate-limit headers has been received for it, and otherwise equals the
\* three header values of the most recent such response.
C2_QuotaEqualsLastHeaders ==
    \A t \in Tokens, c \in Classes : limit[t][c] = fromHeaders(t, c)

\* C2, amended: the core bucket always is what the last header-carrying core
\* response said (unknown before the first); the search bucket is the same for
\* search responses, unless _check_limits ran after the last of them: then
\* it holds the resources.search values of the rate_limit body, or unknown
\* when the rate_limit request answered TokenNotReady.
C2_QuotaEqualsLastReport ==
    \A t \in Tokens :
        /\ limit[t]["core"] = fromHeaders(t, "core")
        /\ limit[t]["search"] =
              IF lastCheck[t].kind = "none"
              THEN fromHeaders(t, "search")
              ELSE searchLimit(lastCheck[t].search)

\* a search response with headers was stored, and a later _check_limits replaced
\* it by different values of a rate_limit body
C2_Witness ==
    \E t \in Tokens :
        /\ lastHdr[t]["search"] # NoHeaders
        /\ lastCheck[t].kind = "body"
        /\ limit[t]["search"] # fromHeaders(t, "search")
        /\ limit[t]["core"] # UnknownLimit

\* C14: the outcome of a request sent through one credential, response or
\* exception, leaves the quota state of every other credential as it was.
C14_OnlyOwnQuotaChanges ==
    [][pc = "wait" => \A t \in Tokens \ {idx} : limit'[t] = limit[t]]_vars

\* both credentials have stored core headers, the second after the first, and
\* they differ
C14_Witness ==
    /\ pc = "idle"
    /\ caller = "direct"
    /\ idx = 2
    /\ limit[1]["core"] # UnknownLimit
    /\ limit[2]["core"] # UnknownLimit
    /\ limit[1]["core"] # limit[2]["core"]

(* ======================= properties of the client ======================= *)
\* C12: with no credentials configured, constructing the client raises
\* EnvironmentError and leaves no usable client; a request is only ever in
\* flight on a client that was constructed with a non-empty pool.
C12_EmptyPoolFailsAtConstruction ==
    /\ (configured = 0 /\ client # "none") => (client = "failed" /\ exc = "EnvironmentError")
    /\ client = "ready" => configured > 0
    /\ pc = "wait" => (client = "ready" /\ configured > 0)

\* a construction with no credentials configured has failed
C12_Witness ==
    /\ configured = 0
    /\ client = "failed"
    /\ exc = "EnvironmentError"
    /\ pc = "idle"

\* C13: across requests and further constructions of the singleton the pool
\* keeps its credentials: a pool position whose core quota was learned from
\* response headers never falls back to unknown.
C13_PoolKeepsQuota ==
    \A t \in learned : limit[t]["core"] # UnknownLimit

(* ==================== properties of the endpoint methods ================= *)
\* every request of the method was answered 404, 451, 409 or 410
AnsweredEmpty == mpc \in {"body", "done", "raised"} /\ empties = phase

\* C15: an endpoint method whose request was answered 404, 451, 409 or 410
\* (self.request returned {}) yields no record, returns the blank string if it
\* returns a value, and raises nothing.
C15_AbsentResourceIsEmpty ==
    AnsweredEmpty =>
        /\ mpc # "raised" /\ mexc = "none"
        /\ yielded = <<>>
        /\ mpc = "done" => ret = IF method \in Generators THEN NoReturn ELSE ""

\* the items of the answer that the loop has been through
seen == SubSeq(iter(data), 1, cur - 1)
\* the item has no 'pull_request' key
NoPullRequestKey(e) == e.pull_request = Missing

\* C19: repo_issues and repo_pulls yield one record for each item of the
\* answer that has no 'pull_request' key, in the answer's order; the record
\* has exactly the seven fields author, closed, created_at, updated_at,
\* closed_at, number, title, taken from the item, with closed true exactly
\* when the item's state is not "open".
C19_IssuesFilteredAndMapped ==
    (method \in {"repo_issues", "repo_pulls"} /\ mpc \in {"body", "done"}) =>
        LET kept == SelectSeq(seen, NoPullRequestKey) IN
        /\ mexc = "none"
        /\ Len(yielded) = Len(kept)
        /\ mpc = "done" => cur = Len(data.items) + 1
        /\ \A j \in 1..Len(kept) :
              /\ DOMAIN yielded[j] = {"author", "closed", "created_at", "updated_at",
                                      "closed_at", "number", "title"}
              /\ yielded[j].author = kept[j].user.login
              /\ yielded[j].closed = (kept[j].state # "open")
              /\ yielded[j].created_at = kept[j].created_at
              /\ yielded[j].updated_at = kept[j].updated_at
              /\ yielded[j].closed_at = kept[j].closed_at
              /\ yielded[j].number = kept[j].number
              /\ yielded[j].title = kept[j].title

\* repo_issues ran to its end over an answer that holds a pull request (with
\* a null 'pull_request' value) before an open issue: only the issue came out
C19_Witness ==
    /\ method = "repo_issues" /\ mpc = "done"
    /\ Len(data.items) = 2
    /\ data.items[1].pull_request = NoneS
    /\ data.items[2].pull_request = Missing /\ data.items[2].state = "open"
    /\ Len(yielded) = 1 /\ yielded[1].closed = FALSE

\* the method runs parse_commit over the items of its answer
ParsingCommits ==
    \/ method = "pull_request_commits" /\ mpc \in {"body", "done", "raised"}
    \/ method = "repo_commits" /\ phase = 1 /\ mpc \in {"body", "raised"}

\* C20: parse_commit, run by repo_commits and pull_request_commits over each
\* commit, does not fail when the commit's author is null (or its git author
\* is null or missing): the record then has None in the author fields, and
\* every record has all nine keys, the optional ones with None when the
\* commit lacks them.
C20_NullAuthorParses ==
    ParsingCommits =>
        /\ mexc \in {"none"} \cup RequestErrors
        /\ mpc = "raised" => (data = NoResult /\ yielded = <<>>)
        /\ Len(yielded) = Len(seen)
        /\ \A j \in 1..Len(seen) :
              /\ DOMAIN yielded[j] = {"sha", "author", "author_name", "author_email",
                                      "authored_date", "message", "committed_date",
                                      "parents", "verified"}
              /\ yielded[j].sha = seen[j].sha
              /\ seen[j].author.null => yielded[j].author = NoneS
              /\ ~seen[j].author.null => yielded[j].author = seen[j].author.login
              /\ seen[j].commit.author.is # "obj" =>
                    /\ yielded[j].author_name = NoneS
                    /\ yielded[j].author_email = NoneS
                    /\ yielded[j].authored_date = NoneS
              /\ seen[j].verification.is = "absent" => yielded[j].verified = NoneS

\* repo_commits has yielded the record of a commit whose author is null and
\* whose git author is null
C20_Witness ==
    /\ method = "repo_commits" /\ phase = 1 /\ mpc = "body" /\ cur = 2
    /\ data.items[1].author.null
    /\ data.items[1].commit.author.is = "null"
    /\ Len(yielded) = 1
    /\ yielded[1].author = NoneS /\ yielded[1].author_name = NoneS

TimelineKeys == {"event", "author", "email", "author_type", "author_association",
                 "commit_id", "created_at", "id", "repo", "type", "state",
                 "assignees", "label", "body"}

\* C17: issue_pr_timeline yields exactly one record per event of the answer,
\* in the answer's order; every record has exactly the fourteen keys of
\* TimelineKeys, with the event's tag under 'event'; and the record of an
\* event is the one the mapping gives for that event when nothing came
\* before it, whatever the events before it were.
C17_TimelineIsPerEventMapping ==
    (method = "issue_pr_timeline" /\ mpc \in {"body", "done"}) =>
        /\ mexc = "none"
        /\ Len(yielded) = Len(seen)
        /\ mpc = "done" => cur = Len(data.items) + 1
        /\ \A j \in 1..Len(seen) :
              /\ DOMAIN yielded[j] = TimelineKeys
              /\ yielded[j].event = seen[j].event
              /\ yielded[j] = timeline(seen[j], NullActor).rec

\* the timeline of an event with an actor followed by an event of a tag the
\* method does not know was mapped to its end
C17_Witness ==
    /\ method = "issue_pr_timeline" /\ mpc = "done"
    /\ Len(yielded) = 2
    /\ data.items[1].event = "closed" /\ ~data.items[1].actor.null
    /\ data.items[2].event = "unlabeled"
    /\ yielded[1].author = "alice" /\ yielded[2].author = ""

\* the value is blank: the empty string or None
IsBlank(v) == v \in {"", NoneS}

\* C18: a 'committed' event is mapped to type 'commit', author the name and
\* email the email of its author, commit_id its sha, event 'committed', and
\* an event of an unknown tag to a record with that tag under 'event' and
\* type ''; in both, created_at is the event's created_at (None if it has
\* none) and every other field is the empty string.
C18_CommittedAndUnknownEvents ==
    (method = "issue_pr_timeline" /\ mpc \in {"body", "done"}) =>
        \A j \in 1..Len(seen) :
            LET e == seen[j]
                r == yielded[j]
                others(ks) == \A k \in TimelineKeys \ ks : r[k] = ""
                date == IF e.created_at = Missing THEN IsBlank(r.created_at)
                                                 ELSE r.created_at = e.created_at
            IN  /\ e.event = "committed" =>
                      /\ r.type = "commit" /\ r.event = "committed"
                      /\ r.author = e.author.name /\ r.email = e.author.email
                      /\ r.commit_id = e.sha
                      /\ date
                      /\ others({"type", "event", "author", "email", "commit_id", "created_at"})
                /\ e.event \notin KnownTags =>
                      /\ r.event = e.event /\ r.type = ""
                      /\ date
                      /\ others({"event", "created_at"})

\* a 'committed' event and an event of an unknown tag with a created_at were
\* mapped
C18_Witness ==
    /\ method = "issue_pr_timeline" /\ mpc = "done"
    /\ Len(yielded) = 2
    /\ data.items[1].event = "committed"
    /\ data.items[2].event = "unlabeled" /\ data.items[2].created_at = "t1"
    /\ yielded[1].type = "commit" /\ yielded[1].author = "Al"
    /\ yielded[2].created_at = "t1"

(* ======================== properties of GitHubAPIv4 ====================== *)
\* the nodes of an answer, and its pageInfo
nodesOf(p) == IF p.null THEN <<>> ELSE getitem(p.conn, "nodes")
pageInfo(p) == getitem(p.conn, "pageInfo")
\* the nodes of the first k answers, in order
RECURSIVE nodesUpTo(_)
nodesUpTo(k) == IF k = 0 THEN <<>> ELSE nodesUpTo(k - 1) \o nodesOf(served[k])

\* C16: the first GraphQL request carries the caller's cursor and every later
\* one the endCursor of the answer before it; one record is yielded per node
\* of each answer, in order; no request follows an answer whose repository is
\* null or whose hasNextPage is false, the iteration then ends with the
\* records so far; and the method raises nothing of its own.
C16_CursorPagination ==
    (method \in V4Methods /\ mpc \in {"body", "done", "raised"}) =>
        /\ mexc \in {"none"} \cup RequestErrors
        /\ Len(sent) = Len(served)
        /\ Len(sent) >= 1 => sent[1] = arg
        /\ \A k \in 2..Len(sent) : sent[k] = pageInfo(served[k - 1]).endCursor
        /\ \A k \in 1..(Len(served) - 1) : ~served[k].null /\ pageInfo(served[k]).hasNextPage
        /\ mpc = "done" =>
              /\ data.null \/ ~pageInfo(data).hasNextPage
              /\ cur = Len(nodesOf(data)) + 1
        /\ Len(served) >= 1 =>
              LET before == nodesUpTo(Len(served) - 1)
                  all == before \o nodesOf(data)
              IN  /\ Len(yielded) = Len(before) + cur - 1
                  /\ \A j \in 1..Len(yielded) :
                        IF method = "v4.repo_issues"
                        THEN yielded[j].number = all[j].number
                        ELSE yielded[j].sha = all[j].sha

(* ======================= properties of canonical_url ===================== *)
\* C21: canonical_url gives "github.com/pandas-dev/pandas" for
\* "pandas-DEV/pandas", "github.com/django/django" for
\* "https://github.com/django/django.git" and for
\* "http://github.com/django/django.git", and "github.com/a/b/" for
\* "https://github.com/A/B/".
C21_CanonicalUrlExamples ==
    canon # <<>> =>
        /\ project_url = <<"p", "a", "n", "d", "a", "s", "-", "D", "E", "V", "/", "p", "a", "n", "d", "a", "s">> => canon = <<"g", "i", "t", "h", "u", "b", ".", "c", "o", "m", "/", "p", "a", "n", "d", "a", "s", "-", "d", "e", "v", "/", "p", "a", "n", "d", "a", "s">>
        /\ project_url = <<"h", "t", "t", "p", "s", ":", "/", "/", "g", "i", "t", "h", "u", "b", ".", "c", "o", "m", "/", "d", "j", "a", "n", "g", "o", "/", "d", "j", "a", "n", "g", "o", ".", "g", "i", "t">>
              => canon = <<"g", "i", "t", "h", "u", "b", ".", "c", "o", "m", "/", "d", "j", "a", "n", "g", "o", "/", "d", "j", "a", "n", "g", "o">>
        /\ project_url = <<"h", "t", "t", "p", ":", "/", "/", "g", "i", "t", "h", "u", "b", ".", "c", "o", "m", "/", "d", "j", "a", "n", "g", "o", "/", "d", "j", "a", "n", "g", "o", ".", "g", "i", "t">>
              => canon = <<"g", "i", "t", "h", "u", "b", ".", "c", "o", "m", "/", "d", "j", "a", "n", "g", "o", "/", "d", "j", "a", "n", "g", "o">>
        /\ project_url = <<"h", "t", "t", "p", "s", ":", "/", "/", "g", "i", "t", "h", "u", "b", ".", "c", "o", "m", "/", "A", "/", "B", "/">>
              => canon = <<"g", "i", "t", "h", "u", "b", ".", "c", "o", "m", "/", "a", "/", "b", "/">>

(* ================= properties of the scheduler's retries ================= *)
\* the last response was one of the transient ones: 443, 502, or 403 without
\* a quota header saying that nothing remains
Transient ==
    \/ lastStatus \in {443, 502}
    \/ lastStatus = 403 /\ lastReq.remaining # 0

\* C22: a response with a transient status sends the scheduler into a sleep
\* of 1 to 29 seconds, and when the sleep is over the scheduler is at the
\* credential that received the response, not at the next one.
C22_TransientRetriesSameCredential ==
    [][/\ (pc = "wait" /\ caller = "api" /\ Transient') => (pc' = "jitter" /\ idx' = idx)
       /\ pc = "jitter" =>
             /\ pc' = "scan"
             /\ idx' = lastReq.tok
             /\ \E j \in 1..29 : now' = Min2(now + j, MaxTime)]_vars

\* C23: a 403 response whose quota header says that nothing remains stores
\* the headers as the credential's quota and moves the scheduler to the next
\* credential of the pool, with no sleep.
C23_QuotaExhaustionRotates ==
    [][(pc = "wait" /\ caller = "api" /\ lastStatus' = 403 /\ lastReq'.remaining = 0) =>
          /\ pc' = "scan"
          /\ idx' = idx + 1
          /\ now' = now
          /\ limit'[idx][api_class(url)].remaining = 0
          /\ limit'[idx][api_class(url)].reset_time = int(lastHdr'[idx][api_class(url)].Reset)
          /\ limit'[idx][api_class(url)].limit = int(lastHdr'[idx][api_class(url)].Limit)]_vars

\* the first credential was answered 403 with X-RateLimit-Remaining: 0, and
\* the scheduler stands at the second with the first one's quota stored
C23_Witness ==
    /\ caller = "api"
    /\ lastStatus = 403 /\ lastReq.remaining = 0 /\ lastReq.tok = 1
    /\ pc = "scan" /\ idx = 2
    /\ limit[1]["core"].remaining = 0
    /\ limit[1]["core"].reset_time > now

\* no request of the call has been answered with a page or a result yet
NoneAccepted == params.page \in {None, 1} /\ paginated_res = <<>>

\* C24: when a pass over the pool ends and no request of the call has
\* succeeded, the scheduler goes to sleep for a strictly positive number of
\* seconds before the next pass.
C24_PassEndSleeps ==
    [][(pc = "scan" /\ idx = NTokens + 1 /\ NoneAccepted /\ now' = now) =>
          (pc' = "sleeping" /\ sleep' > 0)]_vars

\* C25 as stated: with every credential exhausted, the wait the scheduler
\* computes is the least of their reset times minus the time of the clock.
C25_WaitIsMinResetMinusNow ==
    (pc = "sleeping" /\ AllSpent) => sleep = MinReset - now

\* C25, amended: the scheduler goes to sleep only with every credential at
\* remaining 0 for the url's class, and the wait it computes is the least of
\* their reset times minus the time of the clock, plus one second.
C25_WaitIsMinResetMinusNowPlusOne ==
    pc = "sleeping" => (AllSpent /\ sleep = MinReset - now + 1 /\ sleep > 0)

\* the scheduler sleeps with the two credentials exhausted until different
\* instants, the second one's the earlier
C25_Witness ==
    /\ pc = "sleeping"
    /\ quota(1).remaining = 0 /\ quota(2).remaining = 0
    /\ quota(2).reset_time < quota(1).reset_time
    /\ quota(2).reset_time > now
    /\ sleep = quota(2).reset_time - now + 1

\* the request just answered ended in a timeout that the scheduler took as one
TimedOutNow == lastKind = "timeout" \/ (pc = "raised" /\ caught(exc, "Timeout"))
\* the request just answered ended in a connection error (a connect timeout
\* is one)
ConnFailedNow == lastKind = "conn"
\* the request just answered ended in 403, 443 or 502
RefusedNow == lastStatus \in {403, 443, 502}

\* C26: a request that ends in a timeout, a connection error, 403, 443 or
\* 502 leaves the page number and the pages accumulated as they are, and the scheduler goes on
\* by the same rule whether the call paginates or not: a timeout is counted
\* and raised once the count exceeds the pool size, else the next credential
\* is tried, as it is after a connection error; a refusal leads to the
\* jitter sleep, or (quota signal) to the next credential at once.  The
\* request after such a one asks for the same page again.
C26_FailuresKeepThePage ==
    [][/\ (pc = "wait" /\ caller = "api" /\ (TimedOutNow' \/ ConnFailedNow' \/ RefusedNow')) =>
             /\ params' = params
             /\ paginated_res' = paginated_res
             /\ paginate => paginated_res' = pagesUpTo(params.page - 1)
             /\ TimedOutNow' =>
                   /\ timeout_counter' = timeout_counter + 1
                   /\ IF timeout_counter' > NTokens
                      THEN pc' = "raised"
                      ELSE pc' = "scan" /\ idx' = idx + 1
             /\ ConnFailedNow' => (pc' = "scan" /\ idx' = idx + 1)
             /\ RefusedNow' =>
                   \/ pc' = "jitter" /\ idx' = idx
                   \/ pc' = "scan" /\ idx' = idx + 1 /\ now' = now
       /\ (pc = "scan" /\ pc' = "wait" /\ lastKind \in {"timeout", "conn", "exhausted", "transient"}) =>
             /\ lastReq'.page = lastReq.page
             /\ params' = params]_vars

\* the request for page 2 was answered 502: page 1 is kept and page 2 is
\* the page to ask for
C26_Witness ==
    /\ caller = "api" /\ paginate
    /\ pc = "jitter" /\ lastStatus = 502
    /\ lastReq.page = 2 /\ params.page = 2
    /\ Len(paginated_res) > 0
    /\ paginated_res = pagesUpTo(1)

\* the credential has quota left for the url's class, or none known to be
\* used up, or its reset time has come
Usable(t) == quota(t).remaining # 0 \/ quota(t).reset_time <= now

\* C27 as stated: the credential a request is sent on is the first of the
\* pool, in pool order, that is ready at that moment.
C27_SelectsFirstReadyOfPool ==
    [][(pc = "scan" /\ pc' = "wait") => \A t \in 1..(idx' - 1) : ~Usable(t)]_vars

\* C27, amended: the scheduler walks the pool in its order from where the
\* for loop stands (after the credential of the last request, or at the
\* first one when a pass begins); it passes over a credential only if that
\* one is not ready at that moment, and sends the request on the credential
\* it stands at, which is ready at that moment.
C27_SelectsNextReadyInPass ==
    [][/\ (pc = "scan" /\ pc' = "wait") =>
             (idx <= NTokens /\ Usable(idx) /\ idx' = idx /\ lastReq'.tok = idx)
       /\ (pc = "scan" /\ pc' = "scan" /\ idx' = idx + 1) => ~Usable(idx)
       /\ (pc = "scan" /\ pc' = "scan" /\ idx' # idx /\ idx' # idx + 1) =>
             (idx = NTokens + 1 /\ idx' = 1)
       /\ (pc = "scan" /\ pc' = "sleeping") => idx = NTokens + 1
       /\ (pc = "sleeping" /\ pc' # "sleeping") => (pc' = "scan" /\ idx' = 1)]_vars

\* the request is in flight on the second credential, the first one having
\* been passed over as exhausted
C27_Witness ==
    /\ caller = "api" /\ pc = "wait"
    /\ idx = 2 /\ lastReq.tok = 2
    /\ ~Usable(1)
    /\ lastStatus = 0

(* ================= properties of a credential's readiness =============== *)
\* the stored quota of credential t for the class of a URL that starts with
\* 'search' (s = TRUE) or does not
bucket(t, s) == limit[t][IF s THEN "search" ELSE "core"]
isSearch(u) == Len(u) >= Len(SearchPrefix) /\ SubSeq(u, 1, Len(SearchPrefix)) = SearchPrefix

\* a direct request on a credential is being decided: sent, or TokenNotReady
Deciding == pc = "idle" /\ caller' = "direct" /\ ops' = ops + 1

\* C28 as stated: ready(url) is true exactly when the stored remaining quota
\* of the URL's class is nonzero or unknown, so a credential whose stored
\* remaining is 0 is refused.
C28_ReadyIffRemainingNonzero ==
    [][Deciding => (pc' = "wait" <=> bucket(idx', isSearch(url')).remaining # 0)]_vars

\* C28, amended: ready(url) is true exactly when the stored remaining quota of
\* the URL's class is nonzero or unknown, or it is 0 and the stored reset time
\* of that class has been reached; a request is sent exactly when the
\* credential is ready, and refused with TokenNotReady otherwise.
C28_ReadyIffRemainingOrResetReached ==
    [][Deciding =>
          (pc' = "wait" <=>
              \/ bucket(idx', isSearch(url')).remaining # 0
              \/ bucket(idx', isSearch(url')).reset_time <= now)]_vars

\* a direct request is in flight on a credential whose stored remaining for
\* the class is 0 and whose reset time has passed
C28_Witness ==
    /\ pc = "wait"
    /\ caller = "direct"
    /\ bucket(idx, isSearch(url)).remaining = 0
    /\ bucket(idx, isSearch(url)).reset_time # None
    /\ bucket(idx, isSearch(url)).reset_time <= now

\* C29: the class of a request is 'search' when its URL starts with 'search'
\* and 'core' otherwise; whether a request is sent is decided by the bucket of
\* its own class alone, and its response replaces that bucket by the values of
\* the rate-limit headers (when it carries them) and leaves the credential's
\* other bucket as it was.
C29_OwnClassBucketOnly ==
    [][/\ Deciding =>
             (pc' = "idle" <=>
                 /\ bucket(idx', isSearch(url')).remaining = 0
                 /\ bucket(idx', isSearch(url')).reset_time > now)
       /\ (pc = "wait" /\ caller = "direct") =>
             /\ bucket(idx, ~isSearch(url))' = bucket(idx, ~isSearch(url))
             /\ bucket(idx, isSearch(url))' \in
                    {bucket(idx, isSearch(url)),
                     fromHeaders(idx, IF isSearch(url) THEN "search" ELSE "core")'}]_vars

\* a search request was answered with rate-limit headers on a credential whose
\* core bucket holds other values, stored by an earlier request
C29_Witness ==
    /\ pc = "idle"
    /\ caller = "direct"
    /\ isSearch(url)
    /\ lastHdr[idx]["search"] # NoHeaders
    /\ lastHdr[idx]["core"] # NoHeaders
    /\ limit[idx]["search"] = fromHeaders(idx, "search")
    /\ limit[idx]["core"] = fromHeaders(idx, "core")
    /\ limit[idx]["search"] # limit[idx]["core"]

(* ===================== properties of repo_commits ======================= *)
\* a record parse_commit built, and a record of a pull request
isCommitRecord(r) == "sha" \in DOMAIN r
isPullRecord(r) == "id" \in DOMAIN r /\ "head_branch" \in DOMAIN r

\* the records yielded so far are commit records followed by pull-request
\* records, with no pull-request record while the commits are being listed
StreamOrdered ==
    method = "repo_commits" =>
        \E k \in 0..Len(yielded) :
            /\ \A i \in 1..k : isCommitRecord(yielded[i])
            /\ \A i \in (k + 1)..Len(yielded) : isPullRecord(yielded[i])
            /\ phase = 1 => k = Len(yielded)

\* C30: repo_commits yields every commit record before any pull-request
\* record; it asks for the pull requests only once every commit of the
\* answer has been yielded as its record, in order; and an empty answer for
\* the commit history (a 409, say) yields nothing and goes on to the pull
\* requests.
C30_CommitsThenPulls ==
    [][/\ StreamOrdered /\ StreamOrdered'
       /\ (method = "repo_commits" /\ phase = 1 /\ phase' = 2) =>
             /\ mpc = "body" /\ mpc' = "fetch"
             /\ yielded' = yielded
             /\ yielded = [i \in 1..Len(iter(data)) |-> parse_commit(iter(data)[i]).rec]
       /\ (method = "repo_commits" /\ phase = 1 /\ mpc = "body" /\ data = EmptyDict) =>
             (phase' = 2 /\ mpc' = "fetch" /\ yielded' = <<>>)
       /\ (method = "repo_commits" /\ phase = 2 /\ mpc = "body") =>
             \A i \in 1..Len(yielded') :
                 i > Len(yielded) => isPullRecord(yielded'[i])]_vars

\* the generator is exhausted after one commit record and one pull-request
\* record, in that order
C30_Witness ==
    /\ method = "repo_commits" /\ mpc = "done" /\ phase = 2
    /\ Len(yielded) = 2
    /\ isCommitRecord(yielded[1])
    /\ isPullRecord(yielded[2])
    /\ yielded[2] = pullRecord(data.items[1])

(* ================ properties of the call's failure counter ============== *)
\* within a call timeout_counter never goes down
CounterNeverDrops ==
    [][(caller = "api" /\ pc # "idle") => timeout_counter' >= timeout_counter]_vars

\* C31: the timeout counter of a call is never reset or decremented, it counts
\* every timeout of the call, those separated by successful pages included,
\* and a paginated call over n credentials raises on its (n+1)-th timeout.
C31_CounterCountsAllTimeouts ==
    [][(caller = "api" /\ pc # "idle") =>
          /\ timeout_counter' >= timeout_counter
          /\ paginate =>
                /\ timeout_counter' = nTimeouts'
                /\ (nTimeouts' = NTokens + 1) <=> (pc' = "raised" /\ caught(exc', "Timeout"))]_vars

(* ============== properties of a paginated call's result ================= *)
AbsentStatuses == {404, 451, 409, 410}

\* the last answer was taken as a page that ends the pagination: it is empty
\* or has no rel="next"
EndedByPage ==
    IF lastStatus = 200
    THEN /\ Len(srv) = params.page
         /\ (srv[Len(srv)].n = 0 \/ ~srv[Len(srv)].next)
    ELSE /\ lastStatus \notin AbsentStatuses
         /\ Len(srv) = params.page - 1

\* C32: in a paginated call a resource-absent status on any page, pages
\* 1..k-1 having been accumulated or not, makes the call return the empty
\* result; a paginated call that returned has returned either the empty
\* result or the concatenation of every page served, the last of which ended
\* the pagination.
C32_AbsentDiscardsPages ==
    (caller = "api" /\ paginate /\ pc = "returned") =>
        /\ lastStatus \in AbsentStatuses => result = EmptyDict
        /\ result # EmptyDict =>
              /\ EndedByPage
              /\ result = List(pagesUpTo(Len(srv)))

\* page 1 was accumulated, page 2 was answered 404 (or 451, 409, 410), and the
\* call returned the empty result
C32_Witness ==
    /\ caller = "api" /\ paginate /\ pc = "returned"
    /\ params.page = 2
    /\ Len(paginated_res) > 0
    /\ lastStatus \in AbsentStatuses
    /\ result = EmptyDict

(* ============ properties of the rotation between the pages ============== *)
\* the credentials the for loop reaches after credential i and before
\* credential j, the loop starting over at the first after the last
between(i, j) ==
    IF i < j THEN (i + 1)..(j - 1)
    ELSE ((i + 1)..NTokens) \cup (1..(j - 1))

\* C33: in a paginated call, after page k was answered on credential i the
\* for loop goes on with credential i + 1, and the request for page k + 1 is
\* sent on the first credential the loop then finds ready, a new pass
\* starting at the first credential after the last: every credential passed
\* over on the way has no quota left, so that the request returns to
\* credential i only when no other credential has quota.
C33_PagesRotate ==
    [][(caller = "api" /\ paginate) =>
          /\ (pc = "wait" /\ lastKind' = "page") =>
                (pc' = "scan" /\ idx' = idx + 1 /\ params'.page = params.page + 1)
          /\ (pc = "scan" /\ lastKind = "page" /\ pc' = "wait") =>
                /\ lastReq'.page = lastReq.page + 1
                /\ lastReq'.tok = idx
                /\ lastReq'.prev = lastReq.tok
                /\ \A t \in between(lastReq.tok, idx) : quota(t).remaining = 0]_vars

\* page 1 was answered on the second credential, and the request for page 2
\* is in flight on the first, with no failure in between
C33_Witness ==
    /\ caller = "api" /\ paginate /\ pc = "wait"
    /\ lastReq.page = 2 /\ lastReq.tok = 1 /\ lastReq.prev = 2
    /\ quota(2).remaining \notin {0, None}
    /\ now = 1 /\ connRun = 0 /\ nTimeouts = 0

(* ============= properties of the resumption after a quota sleep ========= *)
\* C34: a credential whose stored remaining is 0 is passed over while its
\* stored reset time is ahead and is sent a request as soon as the clock has
\* reached it, its stored remaining still being 0; the stored quota changes
\* with a response only, never with the clock or a sleep; and when the
\* scheduler wakes from the sleep of an exhausted pool the clock has reached
\* the reset time of a credential, which is how the pool resumes.
C34_ReadyAgainByClock ==
    [][caller = "api" =>
          /\ pc # "wait" => limit' = limit
          /\ (pc = "scan" /\ pc' = "wait" /\ quota(idx).remaining = 0) =>
                quota(idx).reset_time <= now
          /\ (pc = "scan" /\ pc' = "scan" /\ idx' = idx + 1) =>
                (quota(idx).remaining = 0 /\ quota(idx).reset_time > now)
          /\ pc = "sleeping" => \A t \in Tokens : quota(t).remaining = 0
          /\ (pc = "sleeping" /\ pc' # "sleeping") =>
                /\ pc' = "scan" /\ idx' = 1
                /\ \E t \in Tokens : quota(t).reset_time <= now']_vars

\* after the sleep of an exhausted pool a request is in flight on the second
\* credential, whose reset time has passed and whose stored remaining is 0,
\* the first one being still short of its reset time
C34_Witness ==
    /\ caller = "api" /\ pc = "wait"
    /\ sleep > 0
    /\ \A t \in Tokens : quota(t).remaining = 0
    /\ idx = 2
    /\ quota(2).reset_time <= now
    /\ quota(1).reset_time > now

(* ==================== properties of the quota sleep ===================== *)
\* C35: the scheduler goes to its quota sleep only from the end of a pass over
\* the pool, and only with every credential at stored remaining 0 for the
\* class of the request; at the end of a pass with a credential whose
\* remaining is nonzero or unknown it starts the next pass at the first
\* credential, without sleeping.
C35_QuotaSleepOnlyWhenAllSpent ==
    [][caller = "api" =>
          /\ (pc # "sleeping" /\ pc' = "sleeping") =>
                /\ pc = "scan" /\ idx = NTokens + 1
                /\ AllSpent
                /\ sleep' > 0
          /\ (pc = "scan" /\ idx = NTokens + 1 /\ ~AllSpent) =>
                /\ pc' = "scan"
                /\ idx' # idx => (idx' = 1 /\ now' = now /\ sleep' <= 0)]_vars

\* both credentials failed on the connection while they had quota, and the
\* next pass has started at the first credential with no sleep
C35_Witness ==
    /\ caller = "api" /\ pc = "scan" /\ idx = 1
    /\ ~AllSpent
    /\ connRun = NTokens
    /\ sleep <= 0
    /\ now = 1

(* ================ properties of the transient retries =================== *)
\* the last request was answered 403, 443 or 502, or failed on the connection
Retried ==
    /\ caller = "api"
    /\ lastStatus \in {403, 443, 502} \/ lastKind = "conn"

\* C36: a 403, 443 or 502 response or a connection error never ends the call,
\* however many came before it: nothing is raised and nothing returned, and
\* the scheduler goes on to send a further request.
C36_TransientRetriesUnbounded ==
    /\ [](Retried => (pc \notin {"raised", "returned", "idle"} /\ exc = "none"))
    /\ (Retried /\ pc # "wait") ~> (pc = "wait")

\* a 502 was answered on the second credential after time was spent on
\* earlier retries, and the call is in its jitter sleep
C36_Witness ==
    /\ caller = "api" /\ pc = "jitter"
    /\ lastStatus = 502
    /\ idx = NTokens
    /\ now = MaxTime
    /\ timeout_counter = 0

(* ============ properties of the paginated endpoint methods ============== *)
\* C37: a paginated endpoint method makes no request before its first record
\* is asked for, and while its request is fetching pages it has yielded
\* nothing: every record is yielded after the call has returned, the last
\* page answered having ended the pagination, and out of the list the call
\* returned.
C37_NoRecordBeforeLastPage ==
    method \in PaginatedMethods =>
        /\ mpc = "created" => (pc = "idle" /\ lastReq = NoReq /\ caller = "none")
        /\ pc \in {"idle", "scan", "wait", "jitter", "sleeping", "raised"} => yielded = <<>>
        /\ yielded # <<>> =>
              /\ pc = "returned"
              /\ EndedByPage
              /\ data = delivered(method, List(pagesUpTo(Len(srv))))
              /\ Len(yielded) < cur

\* the first record is being yielded out of a list of two pages
C37_Witness ==
    /\ method \in PaginatedMethods
    /\ mpc = "body"
    /\ Len(yielded) = 1
    /\ Len(srv) = 2
    /\ Len(data.items) = 2
    /\ lastReq.page = 2

(* ================ properties of concurrent callers ====================== *)
\* C38: with callers of GitHubAPI.request interleaved, the stored quota of a
\* credential for the class is at every moment unknown or the whole triple of
\* one response received on that credential: never fields of two responses.
C38_QuotaTripleIsOneResponse ==
    \A t \in Tokens :
        \/ limit[t][api_class(url)] = UnknownLimit
        \/ limit[t][api_class(url)] \in received[t]

\* one caller has stored the triple of its response on a credential and has
\* not gone on yet, while another is about to store a different triple on
\* the same credential
C38_Witness ==
    \E v, w \in Callers :
        /\ v # w
        /\ thr[v].pc = "handle" /\ thr[w].pc = "store"
        /\ thr[v].idx = thr[w].idx
        /\ limit[thr[v].idx][api_class(url)] = HeaderLimit(thr[v].r)
        /\ HasRate(thr[v].r)
        /\ HeaderLimit(thr[w].r) # HeaderLimit(thr[v].r)

(* ================ algebraic properties of canonical_url ================= *)
GitHubCom == <<"g", "i", "t", "h", "u", "b", ".", "c", "o", "m", "/">>
\* the characters of str that are "/"
slashes(str) == {i \in 1..Len(str) : str[i] = "/"}

\* C39: canonical_url is idempotent, and every result is "github.com/"
\* followed by a lower-case owner/repo path that has no leading "/" and no
\* trailing ".git".
C39_CanonicalUrlIdempotent ==
    /\ canon2 # <<>> => canon2 = canon
    /\ canon # <<>> =>
          /\ startswith(canon, GitHubCom)
          /\ lower(canon) = canon
          /\ \E path \in {SubSeq(canon, Len(GitHubCom) + 1, Len(canon))} :
                /\ Len(path) > 0
                /\ path[1] # "/"
                /\ ~endswith(path, <<".", "g", "i", "t">>)
                /\ Cardinality(slashes(path)) = 1

====
